---- MODULE Spec2Model ----
(***************************************************************************)
(* Model of the Supernote .note decoder (internal/note/parse.go): the      *)
(* RATTA_RLE reference codec, the layer loader, the compositor and the     *)
(* page renderer, together with the package-level reader they share.       *)
(*                                                                         *)
(* Byte slices ([]byte) are kept run-length coded: a slice is a record     *)
(* [nil, n, runs] where n is len(slice) and runs is the sequence of        *)
(* maximal runs [g, n] of equal bytes.  The coding is canonical (adjacent  *)
(* runs differ, no run is empty), so two slices hold the same bytes iff    *)
(* their records are equal, and page-sized buffers stay small.             *)
(***************************************************************************)
EXTENDS Integers, Sequences, FiniteSets, TLC

VARIABLES
    env,        \* process environment read through os.Getenv
    call,       \* arguments of the decodeRattaRLERef call being stepped
    loc,        \* its locals: w, h, expected, i, out, haveHolder, holdColor, holdLen
    pc,         \* its position: "loop", "return", "done" ("idle": no call)
    ret,        \* its return values (pix, w, h, err)
    compMain,   \* the main image handed to a Composite call
    compBg,     \* the background image handed to it
    compIn,     \* history: the planes of both images when the call was made
    compPc,     \* "call" before the Composite call, "done" after it, "again"
                \* after a second call ("idle": none)
    fileReader, \* the package-level reader: the file it reads, 0 while nil
    readerPos,  \* the read position of the file behind fileReader
    notebooks,  \* per file, what Parse returned for it
    last,       \* history: the last call, the source it read and its result
    kept,       \* history: an earlier successful DecodePage call and its raster,
                \* and whether another page of that notebook was decoded since
    parsing,    \* a Parse call being stepped: its reader, its cursor, its locals
                \* footer, pageAddrs and pages, and what it returned
    pool,       \* main's worker pool: the channels jobs and results, main's
                \* position and each worker's
    search,     \* findNoteFiles and the output directories: the tree searched,
                \* the files found, the paths written so far
    conv        \* a processNoteFile call being stepped: its notebook, its page
                \* loop, the files it wrote

rleVars == <<call, loc, pc, ret>>
compVars == <<compMain, compBg, compIn, compPc>>
nbVars == <<fileReader, readerPos, notebooks, last, kept>>
mainVars == <<pool, search, conv>>
sideVars == <<parsing, pool, search, conv>>
vars == <<env, call, loc, pc, ret, compMain, compBg, compIn, compPc,
          fileReader, readerPos, notebooks, last, kept, parsing, pool, search, conv>>

(***************************************************************************)
(* Program constants                                                       *)
(***************************************************************************)
addressSize == 4
pageWidth == 1404
pageHeight == 1872
hiresWidth == 1920
hiresHeight == 2560

colBlack == 97
colBG == 98
colDark == 99
colGray == 100
colWhite == 101
colMBlack == 102
colMDark == 103
colMGray == 104
lenMark == 255
longLen == 16384
blankLen == 1024
specialWhiteStyleBlockSize == 5134

Byte == 0..255

(***************************************************************************)
(* Byte slices                                                             *)
(***************************************************************************)
NilBytes == [nil |-> TRUE, n |-> 0, runs |-> <<>>]
EmptyBytes == [nil |-> FALSE, n |-> 0, runs |-> <<>>]

\* append(s, make([]byte, k)...) followed by filling the new bytes with g
appendRun(s, g, k) ==
    IF k <= 0 THEN s
    ELSE LET r == s.runs
             m == Len(r)
         IN  IF m > 0 /\ r[m].g = g
             THEN [nil |-> FALSE, n |-> s.n + k,
                   runs |-> [r EXCEPT ![m].n = @ + k]]
             ELSE [nil |-> FALSE, n |-> s.n + k,
                   runs |-> Append(r, [g |-> g, n |-> k])]

\* a slice of k bytes all equal to g
filled(g, k) == appendRun(EmptyBytes, g, k)

RECURSIVE runAt(_, _, _)
\* index of the run of s that holds byte i (0-based), searching from run k
\* whose first byte has index i - off ... ; 0 when i is out of range
runAt(r, k, i) ==
    IF k > Len(r) THEN 0
    ELSE IF i < r[k].n THEN k
    ELSE runAt(r, k + 1, i - r[k].n)

\* s[i], 0-based; -1 when i is out of range
byteAt(s, i) ==
    LET k == IF i < 0 THEN 0 ELSE runAt(s.runs, 1, i)
    IN  IF k = 0 THEN -1 ELSE s.runs[k].g

\* the slice is canonical: its runs are non-empty, adjacent runs differ, n is their sum
RECURSIVE sumRuns(_, _)
sumRuns(r, k) == IF k > Len(r) THEN 0 ELSE r[k].n + sumRuns(r, k + 1)

\* start offsets of the runs of equal bytes of s
runStarts(s) ==
    {s.n - sumRuns(s.runs, k) : k \in 1..Len(s.runs)}

WellFormed(s) ==
    /\ s.n = sumRuns(s.runs, 1)
    /\ \A k \in DOMAIN s.runs : s.runs[k].n > 0 /\ s.runs[k].g \in Byte
    /\ \A k \in DOMAIN s.runs : k > 1 => s.runs[k].g # s.runs[k - 1].g
    /\ s.nil => s.n = 0

RECURSIVE fromSeq(_, _, _)
\* the byte slice holding the bytes q[k..]
fromSeq(out, q, k) ==
    IF k > Len(q) THEN out ELSE fromSeq(appendRun(out, q[k], 1), q, k + 1)

RECURSIVE toSeq(_, _)
\* the bytes of the runs r[k..], one element per byte
toSeq(r, k) ==
    IF k > Len(r) THEN <<>>
    ELSE [j \in 1..r[k].n |-> r[k].g] \o toSeq(r, k + 1)

bytesOf(q) == fromSeq(EmptyBytes, q, 1)
seqOf(s) == toSeq(s.runs, 1)

(***************************************************************************)
(* Palette and writeRun                                                    *)
(***************************************************************************)
grayLUT ==
    (colBlack :> 0) @@ (colMBlack :> 0) @@
    (colDark :> 157) @@ (colMDark :> 157) @@
    (colGray :> 201) @@ (colMGray :> 201) @@
    (colWhite :> 254) @@
    (colBG :> 255) @@
    (157 :> 157) @@ (201 :> 201) @@ (158 :> 157) @@ (202 :> 201)

\* mutant: the eight palette codes, every other byte mid gray
grayOfEightCodes(code) ==
    IF code \in colBlack..colMGray THEN grayLUT[code] ELSE 201

\* the grayscale writeRun writes for a colour code
grayOf(code) ==
    IF code \in DOMAIN grayLUT THEN grayLUT[code]
    ELSE IF code = colBG THEN 255 ELSE 201

min2(a, b) == IF a < b THEN a ELSE b

RECURSIVE writeRunChunksLoop(_, _, _, _, _)
\* lines 1264-1284: the chunks the loop appends, after those of done, to a
\* buffer of n bytes, each with the offset it is appended at and its length
\* (Len(done) >= 0 is true of every sequence; with it TLC evaluates done at
\* every pass and not as one nested expression at the end)
writeRunChunksLoop(done, n, expected, w, length) ==
    IF length > 0 /\ n < expected /\ Len(done) >= 0
    THEN LET remain == expected - n
             spaceInRow == w - (n % w)
             chunk == min2(min2(length, spaceInRow), remain)
         IN  writeRunChunksLoop(Append(done, [at |-> n, n |-> chunk]),
                                n + chunk, expected, w, length - chunk)
    ELSE done

writeRunChunks(n, expected, w, length) == writeRunChunksLoop(<<>>, n, expected, w, length)

\* mutant: one pass where writeRun loops, the run cut at the end of the row
writeRunLoopOnce(out, expected, w, g, length) ==
    IF length > 0 /\ out.n < expected
    THEN LET remain == expected - out.n
             spaceInRow == w - (out.n % w)
             chunk == min2(min2(length, spaceInRow), remain)
         IN  appendRun(out, g, chunk)
    ELSE out

RECURSIVE writeRunLoop(_, _, _, _, _)
writeRunLoop(out, expected, w, g, length) ==
    IF length > 0 /\ out.n < expected
    THEN LET remain == expected - out.n
             spaceInRow == w - (out.n % w)
             chunk == min2(min2(length, spaceInRow), remain)
         IN  writeRunLoop(appendRun(out, g, chunk), expected, w, g, length - chunk)
    ELSE out

writeRun(out, expected, w, code, length) ==
    IF length <= 0 THEN out
    ELSE writeRunLoop(out, expected, w, grayOf(code), length)

(***************************************************************************)
(* decodeRattaRLERef                                                       *)
(*                                                                         *)
(* The locals of a call are the record                                     *)
(*   [w, h, expected, i, out, haveHolder, holdColor, holdLen, log]         *)
(* where log is a history field: the writeRun calls made so far, each with *)
(* its colour code, the length passed and len(out) before the call.        *)
(***************************************************************************)

\* lines 841-848: orientation swap, expected, empty output, no holder
refEnter(w, h, horiz) ==
    LET w2 == IF horiz THEN h ELSE w
        h2 == IF horiz THEN w ELSE h
    IN  [w |-> w2, h |-> h2, expected |-> w2 * h2, i |-> 0, out |-> EmptyBytes,
         haveHolder |-> FALSE, holdColor |-> 0, holdLen |-> 0, log |-> <<>>]

\* "remain := expected - len(out); if x > remain { x = remain }"
clampRemain(l, x) ==
    LET remain == l.expected - l.out.n
    IN  IF x > remain THEN remain ELSE x

\* a writeRun(&out, expected, w, code, length) call of the decoder
emit(l, code, length) ==
    [l EXCEPT !.out = writeRun(l.out, l.expected, l.w, code, length),
              !.log = Append(@, [code |-> code, length |-> length, at |-> l.out.n])]

\* mutant: the second length byte masked to 7 bits, as decodeRattaRLE does
mergedLengthMasked(pl, length) == 1 + (length % 128) + (((pl % 128) + 1) * 128)

\* length of a merged run: 1 + int(length) + (((int(pl) & 0x7f) + 1) << 7)
mergedLength(pl, length) == 1 + length + (((pl % 128) + 1) * 128)

\* mutant: the flushed holder without its extra pixel, as decodeRattaRLE does
flushLengthNoExtra(pl) == ((pl % 128) + 1) * 128

\* mutant: a holder flushed alone gives one pixel
flushLengthOne(pl) == 1

\* length of a holder flushed alone: 1 + (((int(pl) & 0x7f) + 1) << 7)
flushLength(pl) == 1 + (((pl % 128) + 1) * 128)

\* lines 872-892: resolve a pending holder against the pair (color, length);
\* yields the locals and dataPushed
refResolveHolder(l, color, length) ==
    IF l.haveHolder
    THEN LET pcol == l.holdColor
             pl == l.holdLen
             l1 == [l EXCEPT !.haveHolder = FALSE]
         IN  IF color = pcol
             THEN [l |-> emit(l1, pcol, clampRemain(l1, mergedLength(pl, length))),
                   dataPushed |-> TRUE]
             ELSE [l |-> emit(l1, pcol, clampRemain(l1, flushLength(pl))),
                   dataPushed |-> FALSE]
    ELSE [l |-> l, dataPushed |-> FALSE]

\* lines 895-901: length of the special (0xFF) run
specialLength(l, color, allBlank, fixBG) ==
    IF allBlank THEN blankLen
    ELSE IF fixBG /\ color = colBG THEN l.w
    ELSE longLen

\* mutant: the holder test made before the 0xFF test
refProcessPairHolderFirst(l, color, length, allBlank, fixBG) ==
    IF (length \div 128) % 2 = 1
    THEN [l EXCEPT !.holdColor = color, !.holdLen = length, !.haveHolder = TRUE]
    ELSE emit(l, color, clampRemain(l, length + 1))

\* lines 893-921: the pair itself, when the merge did not consume it
refProcessPair(l, color, length, allBlank, fixBG) ==
    IF length = lenMark
    THEN emit(l, color, clampRemain(l, specialLength(l, color, allBlank, fixBG)))
    ELSE IF (length \div 128) % 2 = 1
    THEN [l EXCEPT !.holdColor = color, !.holdLen = length, !.haveHolder = TRUE]
    ELSE emit(l, color, clampRemain(l, length + 1))

\* line 864-867: the loop runs while a whole pair is left and the output is short
refLoopCond(l, data) ==
    l.i < Len(data) /\ l.out.n < l.expected /\ ~(l.i + 1 >= Len(data))

\* lines 868-926: one iteration of the loop
refIterate(l, data, allBlank, fixBG) ==
    LET color == data[l.i + 1]
        length == data[l.i + 2]
        l0 == [l EXCEPT !.i = @ + 2]
        r == refResolveHolder(l0, color, length)
    IN  IF r.dataPushed THEN r.l
        ELSE refProcessPair(r.l, color, length, allBlank, fixBG)

\* mutant: the shifts tried upwards from 0, so the smallest that fits is taken
tailLengthSmallest(pl, gap, bit) ==
    IF (pl % 128) + 1 <= gap THEN (pl % 128) + 1 ELSE 0

RECURSIVE tailLength(_, _, _)
\* lines 930-937: the first bit from 7 down to 0 with ((pl&0x7f)+1)<<bit <= gap
tailLength(pl, gap, bit) ==
    IF bit < 0 THEN 0
    ELSE LET len == ((pl % 128) + 1) * (2 ^ bit)
         IN  IF len <= gap THEN len ELSE tailLength(pl, gap, bit - 1)

\* lines 927-941: tail adjustment
refTailAdjust(l) ==
    IF l.haveHolder /\ l.out.n < l.expected
    THEN LET gap == l.expected - l.out.n
             adjusted == tailLength(l.holdLen, gap, 7)
         IN  IF adjusted > 0 THEN emit(l, l.holdColor, adjusted) ELSE l
    ELSE l

\* mutant: whatever was produced is returned as the buffer
refReturnPartial(l) ==
    [pix |-> l.out, w |-> l.w, h |-> l.h, err |-> ""]

\* lines 942-945: the return values
refReturn(l) ==
    IF l.out.n # l.expected
    THEN [pix |-> NilBytes, w |-> 0, h |-> 0, err |-> "ratta_ref decoded"]
    ELSE [pix |-> l.out, w |-> l.w, h |-> l.h, err |-> ""]

RECURSIVE refLoopSteps(_, _, _, _, _)
\* the locals after at most n more iterations of the loop of lines 864-926;
\* the iterations are split in halves, which keeps the evaluation shallow
refLoopSteps(l, data, allBlank, fixBG, n) ==
    IF n = 0 \/ ~refLoopCond(l, data) THEN l
    ELSE IF n = 1 THEN refIterate(l, data, allBlank, fixBG)
    ELSE LET first == refLoopSteps(l, data, allBlank, fixBG, n \div 2)
         IN  refLoopSteps(first, data, allBlank, fixBG, n - (n \div 2))

\* the loop run to its exit: each iteration consumes a pair
refLoop(l, data, allBlank, fixBG) ==
    refLoopSteps(l, data, allBlank, fixBG, Len(data) \div 2)

\* the locals of decodeRattaRLERef(data, w, h, allBlank, horiz) at its return
refRun(data, w, h, allBlank, horiz, fixBG) ==
    refTailAdjust(refLoop(refEnter(w, h, horiz), data, allBlank, fixBG))

decodeRattaRLERef(data, w, h, allBlank, horiz, fixBG) ==
    refReturn(refRun(data, w, h, allBlank, horiz, fixBG))

(***************************************************************************)
(* Compositor                                                              *)
(*                                                                         *)
(* An image (a GrayImage pointer) is [nil, pix, alpha, W, H].             *)
(***************************************************************************)
NilImage == [nil |-> TRUE, pix |-> NilBytes, alpha |-> NilBytes, W |-> 0, H |-> 0]
image(pix, alpha, w, h) == [nil |-> FALSE, pix |-> pix, alpha |-> alpha, W |-> w, H |-> h]

RECURSIVE spanFrom(_, _, _)
\* the number of bytes from index i (0-based, i < len) to the end of the run
\* of equal bytes that holds it, searching from run k
spanFrom(r, k, i) ==
    IF i < r[k].n THEN r[k].n - i ELSE spanFrom(r, k + 1, i - r[k].n)

RECURSIVE appendFrom(_, _, _, _)
\* out followed by the bytes s[i:] (i counted from the start of run k)
appendFrom(out, r, k, i) ==
    IF k > Len(r) THEN out
    ELSE IF i >= r[k].n THEN appendFrom(out, r, k + 1, i - r[k].n)
    ELSE appendFrom(appendRun(out, r[k].g, r[k].n - i), r, k + 1, 0)

\* a slice written up to index i and untouched from there
rest(out, s, i) == IF i = 0 THEN s ELSE appendFrom(out, s.runs, 1, i)

min3(a, b, c) == min2(a, min2(b, c))

RECURSIVE compositeLoopNotOpaque(_, _, _, _, _, _)
\* mutant: every pixel that is not fully opaque is taken from the background
compositeLoopNotOpaque(m, a, bp, i, outM, outA) ==
    IF i < m.n /\ i < bp.n /\ i < a.n
    THEN IF byteAt(a, i) # 255
         THEN compositeLoopNotOpaque(m, a, bp, i + 1,
                                     appendRun(outM, byteAt(bp, i), 1),
                                     appendRun(outA, 255, 1))
         ELSE compositeLoopNotOpaque(m, a, bp, i + 1,
                                     appendRun(outM, byteAt(m, i), 1),
                                     appendRun(outA, byteAt(a, i), 1))
    ELSE [pix |-> outM, alpha |-> outA]

RECURSIVE compositeLoopBlend(_, _, _, _, _, _)
\* mutant: a transparent pixel is averaged with the background and stays
\* transparent
compositeLoopBlend(m, a, bp, i, outM, outA) ==
    IF i < m.n /\ i < bp.n /\ i < a.n
    THEN compositeLoopBlend(m, a, bp, i + 1,
                            appendRun(outM, IF byteAt(a, i) = 0
                                            THEN (byteAt(m, i) + byteAt(bp, i)) \div 2
                                            ELSE byteAt(m, i), 1),
                            appendRun(outA, byteAt(a, i), 1))
    ELSE [pix |-> rest(outM, m, i), alpha |-> rest(outA, a, i)]

RECURSIVE compositeLoop(_, _, _, _, _, _)
\* lines 136-142, from index i on; outM and outA are m[:i] and a[:i] as
\* written so far.  The indexes i .. i+s-1 over which m, a and bp are each
\* constant take the same branch, so they are done together.
compositeLoop(m, a, bp, i, outM, outA) ==
    IF i < m.n /\ i < bp.n /\ i < a.n
    THEN LET s == min3(spanFrom(m.runs, 1, i), spanFrom(a.runs, 1, i),
                       spanFrom(bp.runs, 1, i))
         IN  IF byteAt(a, i) = 0
             THEN compositeLoop(m, a, bp, i + s,
                                appendRun(outM, byteAt(bp, i), s),
                                appendRun(outA, 255, s))
             ELSE compositeLoop(m, a, bp, i + s,
                                appendRun(outM, byteAt(m, i), s),
                                appendRun(outA, byteAt(a, i), s))
    ELSE [pix |-> rest(outM, m, i), alpha |-> rest(outA, a, i)]

\* Composite(main, bg): the two images after the call
Composite(main, bg) ==
    IF main.nil \/ bg.nil \/ main.alpha.nil
    THEN [main |-> main, bg |-> bg]
    ELSE LET r == compositeLoop(main.pix, main.alpha, bg.pix, 0, EmptyBytes, EmptyBytes)
         IN  [main |-> [main EXCEPT !.pix = r.pix, !.alpha = r.alpha], bg |-> bg]

(***************************************************************************)
(* Byte source and metadata reader                                         *)
(*                                                                         *)
(* A file is [size, sig, footerAddr, blocks]: its length, whether its      *)
(* first 64 bytes hold the signature, the u32 in its last four bytes, and  *)
(* the length-prefixed blocks it holds, keyed by offset.  A block is       *)
(* [len, body, data, png]: the declared length, the <KEY:VALUE> matches of *)
(* its text in order, its payload bytes, and what png.Decode makes of the  *)
(* payload.  A block that runs past the end of the file is truncated.      *)
(* Offsets that start no block are not read as blocks: the four bytes      *)
(* found there are taken to declare more than the file holds.              *)
(***************************************************************************)
noPng == [ok |-> FALSE, w |-> 0, h |-> 0, px |-> <<>>]
metaBlock(len, body) == [len |-> len, body |-> body, data |-> <<>>, png |-> noPng]
bitmapBlock(len, data, png) == [len |-> len, body |-> <<>>, data |-> data, png |-> png]

\* the offsets the model's files use, as numbers; their decimal texts are
\* the only decimal strings of the model
knownOffsets ==
    {0, 100} \cup {200 + 100 * k : k \in 0..7}
             \cup {1000 + 50 * k : k \in 0..15}
             \cup {10000 * k : k \in 1..17}
             \cup {139990}

\* strconv.ParseInt(s, 10, 64): the number and whether s was a decimal
parseInt(str) ==
    LET hit == {n \in knownOffsets : ToString(n) = str}
    IN  IF hit = {} THEN [ok |-> FALSE, n |-> 0]
        ELSE [ok |-> TRUE, n |-> CHOOSE n \in hit : TRUE]

\* toInt64(v) for a string v: errors give 0
toInt64(v) == parseInt(v).n

RECURSIVE parseParamsFrom(_, _, _)
\* lines 702-708: the matches in order, a key bound by its first match only
parseParamsFrom(body, k, m) ==
    IF k > Len(body) THEN m
    ELSE IF body[k][1] \in DOMAIN m
    THEN parseParamsFrom(body, k + 1, m)
    ELSE parseParamsFrom(body, k + 1, m @@ (body[k][1] :> body[k][2]))

RECURSIVE parseParamsLastWins(_)
\* mutant: a later match of a key replaces the earlier one
parseParamsLastWins(body) ==
    IF body = <<>> THEN <<>>
    ELSE (body[Len(body)][1] :> body[Len(body)][2])
         @@ parseParamsLastWins(SubSeq(body, 1, Len(body) - 1))

parseParams(body) == parseParamsFrom(body, 1, <<>>)

\* mutant: a block is handed over whole although the file ends inside it
readBlockLenient(file, pos, addr) ==
    IF addr < 0 THEN [err |-> "seek", block |-> metaBlock(0, <<>>), pos |-> pos]
    ELSE IF addr + addressSize > file.size
    THEN [err |-> "EOF", block |-> metaBlock(0, <<>>),
          pos |-> IF addr > file.size THEN addr ELSE file.size]
    ELSE IF addr \notin DOMAIN file.blocks
    THEN [err |-> "unexpected EOF", block |-> metaBlock(0, <<>>), pos |-> file.size]
    ELSE [err |-> "", block |-> file.blocks[addr],
          pos |-> addr + addressSize + file.blocks[addr].len]

\* Seek(addr), binary.Read of the u32 length, io.ReadFull of the block:
\* [err, block, pos], pos being the cursor afterwards
readBlock(file, pos, addr) ==
    IF addr < 0 THEN [err |-> "seek", block |-> metaBlock(0, <<>>), pos |-> pos]
    ELSE IF addr + addressSize > file.size
    THEN [err |-> "EOF", block |-> metaBlock(0, <<>>),
          pos |-> IF addr > file.size THEN addr ELSE file.size]
    ELSE IF addr \notin DOMAIN file.blocks \/ addr + addressSize + file.blocks[addr].len > file.size
    THEN [err |-> "unexpected EOF", block |-> metaBlock(0, <<>>), pos |-> file.size]
    ELSE [err |-> "", block |-> file.blocks[addr],
          pos |-> addr + addressSize + file.blocks[addr].len]

\* readMeta(r, addr): [err, params, pos]
readMeta(file, pos, addr) ==
    IF addr = 0 THEN [err |-> "", params |-> <<>>, pos |-> pos]
    ELSE LET b == readBlock(file, pos, addr)
         IN  IF b.err # "" THEN [err |-> b.err, params |-> <<>>, pos |-> b.pos]
             ELSE [err |-> "", params |-> parseParams(b.block.body), pos |-> b.pos]

\* m[key] of a map[string]string: "" when the key is absent
lookup(m, key) == IF key \in DOMAIN m THEN m[key] ELSE ""

(***************************************************************************)
(* Layer loader                                                            *)
(*                                                                         *)
(* A notebook is [W, H, Pages], Pages being the sequence of the pages'     *)
(* parameter maps.  The loader's result is [img, err, pos, calls]: calls   *)
(* is a history field, the decodeRattaRLERef calls made, each with its     *)
(* arguments, len(out) and expected at its end, the writeRun calls it made *)
(* and its return values.                                                  *)
(***************************************************************************)
pngSig == <<137, 80, 78, 71, 13, 10, 26, 10>>

\* lines 383-390: alpha 0 where the pixel is 0xff, 255 elsewhere
RECURSIVE alphaFrom(_, _, _)
alphaFrom(out, r, k) ==
    IF k > Len(r) THEN out
    ELSE alphaFrom(appendRun(out, IF r[k].g = 255 THEN 0 ELSE 255, r[k].n), r, k + 1)

\* mutant: every pixel opaque
alphaOfOpaque(pix) == filled(255, pix.n)

alphaOf(pix) == alphaFrom(EmptyBytes, pix.runs, 1)

\* the record of a decodeRattaRLERef call that ended with the locals l
callRecord(data, w, h, allBlank, horiz, l) ==
    [w |-> w, h |-> h, allBlank |-> allBlank, horiz |-> horiz, len |-> Len(data),
     produced |-> l.out.n, expected |-> l.expected, log |-> l.log,
     ret |-> refReturn(l)]

\* a decodeRattaRLERef call and what it did
codecCall(data, w, h, allBlank, horiz, e) ==
    callRecord(data, w, h, allBlank, horiz,
               refRun(data, w, h, allBlank, horiz, e.RLE_FIX_BG))

failed(err, pos, calls) == [img |-> NilImage, err |-> err, pos |-> pos, calls |-> calls]

\* lines 299-312: luminance and alpha of the decoded PNG's pixels
pngLuma(px) ==
    LET y == (299 * px.R + 587 * px.G + 114 * px.B) \div 1000
    IN  IF y > 255 THEN 255 ELSE y

\* lines 288-343: the PNG branch
pngBranch(png, horiz, e, pos) ==
    IF ~png.ok THEN failed("png decode", pos, <<>>)
    ELSE LET w2 == png.w
             h2 == png.h
             pix == [i \in 1..(w2 * h2) |-> pngLuma(png.px[i])]
             alp == [i \in 1..(w2 * h2) |-> png.px[i].A]
             rot == IF e.SUPERNOTE_PNG_ROTATE = "auto" /\ horiz THEN "cw"
                    ELSE e.SUPERNOTE_PNG_ROTATE
             outW == h2
             \* the old index (1-based) of the pixel that lands on new index j
             old(j) == LET nx == (j - 1) % outW
                           ny == (j - 1) \div outW
                           x == IF rot = "cw" THEN ny ELSE w2 - 1 - ny
                           y == IF rot = "cw" THEN h2 - 1 - nx ELSE nx
                       IN  y * w2 + x + 1
         IN  IF rot = "cw" \/ rot = "ccw"
             THEN [img |-> image(bytesOf([j \in 1..(w2 * h2) |-> pix[old(j)]]),
                                 bytesOf([j \in 1..(w2 * h2) |-> alp[old(j)]]), h2, w2),
                   err |-> "", pos |-> pos, calls |-> <<>>]
             ELSE [img |-> image(bytesOf(pix), bytesOf(alp), w2, h2),
                   err |-> "", pos |-> pos, calls |-> <<>>]

\* lines 382-391: the image of a decoded buffer
rleImage(r, pos, calls) ==
    [img |-> image(r.pix, alphaOf(r.pix), r.w, r.h), err |-> "", pos |-> pos, calls |-> calls]

\* lines 367-372: the retry with the standard dimensions ended as c
rleFallback(c, pos, calls) ==
    IF c.ret.err = "" /\ c.ret.pix.n = c.ret.w * c.ret.h
    THEN rleImage(c.ret, pos, Append(calls, c))
    ELSE failed("ratta_ref decoded (fallback)", pos, Append(calls, c))

\* lines 364-391: the size check after a decode that returned no error
rleSizeCheck(nb, data, horiz, e, r, pos, calls) ==
    IF r.pix.n # r.w * r.h
    THEN IF nb.W # pageWidth \/ nb.H # pageHeight
         THEN rleFallback(codecCall(data, pageWidth, pageHeight, FALSE, horiz, e), pos, calls)
         ELSE failed("ratta_ref decoded (exact size required)", pos, calls)
    ELSE rleImage(r, pos, calls)

\* lines 356-360: the retry after a mismatch ended as c2
rleRetry(nb, data, horiz, e, pos, c1, c2) ==
    IF c2.ret.err = ""
    THEN rleSizeCheck(nb, data, horiz, e, c2.ret, pos, <<c1, c2>>)
    ELSE failed(c1.ret.err, pos, <<c1, c2>>)

\* mutant: a failed decode is never tried again
rleAfterNoRetry(nb, data, horiz, e, pos, c1) ==
    IF c1.ret.err # ""
    THEN failed(c1.ret.err, pos, <<c1>>)
    ELSE rleSizeCheck(nb, data, horiz, e, c1.ret, pos, <<c1>>)

\* lines 353-391: the first decode ended as c1
rleAfter(nb, data, horiz, e, pos, c1) ==
    IF c1.ret.err # ""
    THEN IF (nb.W # pageWidth \/ nb.H # pageHeight) /\ c1.ret.err = "ratta_ref decoded"
         THEN rleRetry(nb, data, horiz, e, pos, c1,
                       codecCall(data, pageWidth, pageHeight, FALSE, horiz, e))
         ELSE failed(c1.ret.err, pos, <<c1>>)
    ELSE rleSizeCheck(nb, data, horiz, e, c1.ret, pos, <<c1>>)

\* lines 346-391: the RATTA_RLE branch
rleBranch(nb, data, horiz, e, pos) ==
    rleAfter(nb, data, horiz, e, pos, codecCall(data, nb.W, nb.H, FALSE, horiz, e))

\* mutant: a short block is synthesized whatever the layer key
bitmapReadAnyKey(nb, key, proto, file, bmpAddr, e, horiz, b) ==
    IF ~(bmpAddr >= 0 /\ bmpAddr + addressSize <= file.size)
    THEN failed(b.err, b.pos, <<>>)
    ELSE IF bmpAddr \in DOMAIN file.blocks /\ file.blocks[bmpAddr].len < 16
    THEN [img |-> image(filled(254, pageWidth * pageHeight),
                        filled(255, pageWidth * pageHeight), pageWidth, pageHeight),
          err |-> "", pos |-> bmpAddr + addressSize, calls |-> <<>>]
    ELSE IF b.err # "" THEN failed(b.err, b.pos, <<>>)
    ELSE IF Len(b.block.data) >= 8 /\ SubSeq(b.block.data, 1, 8) = pngSig
    THEN pngBranch(b.block.png, horiz, e, b.pos)
    ELSE IF proto = "RATTA_RLE"
    THEN rleBranch(nb, b.block.data, horiz, e, b.pos)
    ELSE failed("unsupported protocol", b.pos, <<>>)

\* lines 269-395: what follows the read b of the bitmap block
bitmapRead(nb, key, proto, file, bmpAddr, e, horiz, b) ==
    IF ~(bmpAddr >= 0 /\ bmpAddr + addressSize <= file.size)
    THEN failed(b.err, b.pos, <<>>)
    ELSE IF key = "BGLAYER" /\ bmpAddr \in DOMAIN file.blocks
            /\ file.blocks[bmpAddr].len < 16
    THEN [img |-> image(filled(254, pageWidth * pageHeight),
                        filled(255, pageWidth * pageHeight), pageWidth, pageHeight),
          err |-> "", pos |-> bmpAddr + addressSize, calls |-> <<>>]
    ELSE IF b.err # "" THEN failed(b.err, b.pos, <<>>)
    ELSE IF Len(b.block.data) >= 8 /\ SubSeq(b.block.data, 1, 8) = pngSig
    THEN pngBranch(b.block.png, horiz, e, b.pos)
    ELSE IF proto = "RATTA_RLE"
    THEN rleBranch(nb, b.block.data, horiz, e, b.pos)
    ELSE failed("unsupported protocol", b.pos, <<>>)

\* lines 261-395: from the bitmap block's address on
decodeBitmap(nb, pm, key, proto, file, pos, bmpAddr, e) ==
    bitmapRead(nb, key, proto, file, bmpAddr, e, lookup(pm, "ORIENTATION") = "1090",
               readBlock(file, pos, bmpAddr))

\* lines 252-395: the layer's metadata read as meta
layerMetaRead(nb, pm, key, file, e, meta) ==
    IF meta.err # "" THEN failed(meta.err, meta.pos, <<>>)
    ELSE IF "LAYERBITMAP" \notin DOMAIN meta.params
    THEN failed("layer bitmap missing", meta.pos, <<>>)
    ELSE decodeBitmap(nb, pm, key, lookup(meta.params, "LAYERPROTOCOL"), file,
                      meta.pos, parseInt(meta.params["LAYERBITMAP"]).n, e)

\* lines 245-395: decodeLayerFromPage(pm, key), reading through fileReader
decodeLayerFromPage(nb, pm, key, file, pos, e) ==
    IF key \notin DOMAIN pm THEN failed("layer key missing", pos, <<>>)
    ELSE layerMetaRead(nb, pm, key, file, e, readMeta(file, pos, parseInt(pm[key]).n))

\* the codec calls of a page's two layers
layerCalls(m, b) == [MAINLAYER |-> m, BGLAYER |-> b]

\* mutant: a background that fails fails the page
withBackgroundStrict(m, b) ==
    IF b.err # ""
    THEN [main |-> NilImage, bg |-> NilImage, err |-> "background: " \o b.err,
          pos |-> b.pos, calls |-> layerCalls(m.calls, b.calls)]
    ELSE [main |-> m.img, bg |-> b.img,
          err |-> "", pos |-> b.pos, calls |-> layerCalls(m.calls, b.calls)]

\* lines 118-125: the background layer decoded as b, after the main layer m
withBackground(m, b) ==
    [main |-> m.img, bg |-> IF b.err = "" THEN b.img ELSE NilImage,
     err |-> "", pos |-> b.pos, calls |-> layerCalls(m.calls, b.calls)]

\* lines 112-125: the main layer decoded as m
mainDecoded(nb, pm, file, e, m) ==
    IF m.err # ""
    THEN [main |-> NilImage, bg |-> NilImage, err |-> "main layer: " \o m.err,
          pos |-> m.pos, calls |-> layerCalls(m.calls, <<>>)]
    ELSE IF "BGLAYER" \in DOMAIN pm
    THEN withBackground(m, decodeLayerFromPage(nb, pm, "BGLAYER", file, m.pos, e))
    ELSE [main |-> m.img, bg |-> NilImage, err |-> "", pos |-> m.pos,
          calls |-> layerCalls(m.calls, <<>>)]

\* the page's parameters without its background
withoutBg(pm) == [k \in DOMAIN pm \ {"BGLAYER"} |-> pm[k]]

\* mutant: the background is looked for only while the cursor has not yet
\* passed the page's layers
DecodeLayersForward(nb, idx, file, pos, e) ==
    IF idx < 0 \/ idx >= Len(nb.Pages)
    THEN [main |-> NilImage, bg |-> NilImage, err |-> "page index out of range",
          pos |-> pos, calls |-> layerCalls(<<>>, <<>>)]
    ELSE mainDecoded(nb, IF pos > toInt64(lookup(nb.Pages[idx + 1], "MAINLAYER"))
                         THEN withoutBg(nb.Pages[idx + 1])
                         ELSE nb.Pages[idx + 1],
                     file, e,
                     decodeLayerFromPage(nb, nb.Pages[idx + 1], "MAINLAYER", file, pos, e))

\* lines 107-125: DecodeLayers(idx): [main, bg, err, pos, calls], calls
\* holding the codec calls made for each layer
DecodeLayers(nb, idx, file, pos, e) ==
    IF idx < 0 \/ idx >= Len(nb.Pages)
    THEN [main |-> NilImage, bg |-> NilImage, err |-> "page index out of range",
          pos |-> pos, calls |-> layerCalls(<<>>, <<>>)]
    ELSE mainDecoded(nb, nb.Pages[idx + 1], file, e,
                     decodeLayerFromPage(nb, nb.Pages[idx + 1], "MAINLAYER", file, pos, e))

\* lines 96-103: DecodeLayers returned d
layersDecoded(d) ==
    IF d.err # ""
    THEN [img |-> NilImage, err |-> d.err, pos |-> d.pos, calls |-> d.calls,
          main |-> NilImage, bg |-> NilImage]
    ELSE [img |-> IF ~d.bg.nil THEN Composite(d.main, d.bg).main ELSE d.main,
          err |-> "", pos |-> d.pos, calls |-> d.calls, main |-> d.main, bg |-> d.bg]

\* lines 92-104: DecodePage(idx): [img, err, pos, calls, main, bg], main and
\* bg being the layers as DecodeLayers returned them
DecodePage(nb, idx, file, pos, e) ==
    IF idx < 0 \/ idx >= Len(nb.Pages)
    THEN [img |-> NilImage, err |-> "page index out of range", pos |-> pos,
          calls |-> layerCalls(<<>>, <<>>), main |-> NilImage, bg |-> NilImage]
    ELSE layersDecoded(DecodeLayers(nb, idx, file, pos, e))

(***************************************************************************)
(* Parse                                                                   *)
(***************************************************************************)
\* strings.HasPrefix(k, "PAGE"), over the keys the model's files use
pageKeySuffixes == {"", "1", "2", "3", "4", "5", "6", "STYLE", "S"}
hasPrefixPAGE(k) == \E x \in pageKeySuffixes : k = "PAGE" \o x

RECURSIVE sortedAddrs(_, _)
\* lines 63-69: the offsets of the PAGE keys K of the footer, ascending
sortedAddrs(footer, K) ==
    IF K = {} THEN <<>>
    ELSE LET k == CHOOSE k \in K : \A j \in K : toInt64(footer[k]) <= toInt64(footer[j])
         IN  <<toInt64(footer[k])>> \o sortedAddrs(footer, K \ {k})

RECURSIVE readPages(_, _, _, _, _)
\* lines 70-77: the page descriptors read in order; the first error ends it
readPages(file, pos, addrs, k, pages) ==
    IF k > Len(addrs) THEN [err |-> "", pages |-> pages, pos |-> pos]
    ELSE LET pm == readMeta(file, pos, addrs[k])
         IN  IF pm.err # "" THEN [err |-> pm.err, pages |-> <<>>, pos |-> pm.pos]
             ELSE readPages(file, pm.pos, addrs, k + 1, Append(pages, pm.params))

noNotebook == [W |-> 0, H |-> 0, Pages |-> <<>>, Footer |-> <<>>]

\* lines 42-90: Parse(r) on a reader whose cursor is at pos: [err, nb, pos]
Parse(file, pos, e) ==
    LET headEnd == IF pos + 64 > file.size THEN file.size ELSE pos + 64
        footer == readMeta(file, file.size, file.footerAddr)
        addrs == sortedAddrs(footer.params,
                             {k \in DOMAIN footer.params : hasPrefixPAGE(k)})
        pages == readPages(file, footer.pos, addrs, 1, <<>>)
    IN  IF ~(file.sig /\ pos = 0)
        THEN [err |-> "signature not found", nb |-> noNotebook, pos |-> headEnd]
        ELSE IF file.size < addressSize
        THEN [err |-> "seek", nb |-> noNotebook, pos |-> headEnd]
        ELSE IF footer.err # ""
        THEN [err |-> "footer", nb |-> noNotebook, pos |-> footer.pos]
        ELSE IF pages.err # ""
        THEN [err |-> pages.err, nb |-> noNotebook, pos |-> pages.pos]
        ELSE [err |-> "",
              nb |-> [W |-> IF e.SUPERNOTE_FORCE_HIRES THEN hiresWidth ELSE pageWidth,
                      H |-> IF e.SUPERNOTE_FORCE_HIRES THEN hiresHeight ELSE pageHeight,
                      Pages |-> pages.pages, Footer |-> footer.params],
              pos |-> pages.pos]

(***************************************************************************)
(* The files of the model.  All share one layout: the footer at 100, the   *)
(* descriptor of page p (0-based) at 200 + 100p, its layers' metadata at   *)
(* 1000 + 100p and 1050 + 100p, their bitmaps at 10000 + 20000p and        *)
(* 20000 + 20000p.                                                         *)
(***************************************************************************)
footerAt == 100
pageAt(p) == 200 + 100 * p
mainMetaAt(p) == 1000 + 100 * p
bgMetaAt(p) == 1050 + 100 * p
mainBitmapAt(p) == 10000 + 20000 * p
bgBitmapAt(p) == 20000 + 20000 * p

\* k pairs (c, l)
repeatPair(c, l, k) == [j \in 1..(2 * k) |-> IF j % 2 = 1 THEN c ELSE l]

\* a layer: its protocol, the length its bitmap block declares, the payload,
\* what png.Decode makes of it, whether its metadata names a bitmap, the
\* length its metadata block declares, and where its bitmap is (0: the
\* layout's place)
layer(proto, len, data, png) ==
    [proto |-> proto, len |-> len, data |-> data, png |-> png,
     hasBitmap |-> TRUE, metaLen |-> 40, at |-> 0, placed |-> FALSE]
rleLayer(data) == layer("RATTA_RLE", Len(data), data, noPng)
noLayer == layer("", 0, <<>>, noPng)
\* the layer's metadata without a LAYERBITMAP entry
withoutBitmap(l) == [l EXCEPT !.hasBitmap = FALSE]
\* the layer's metadata block declaring len bytes
metaDeclaring(l, len) == [l EXCEPT !.metaLen = len]
\* the layer's LAYERBITMAP pointing at addr, where no block starts
movedTo(l, addr) == [l EXCEPT !.at = addr]
\* the layer's bitmap block starting at addr
placedAt(l, addr) == [l EXCEPT !.at = addr, !.placed = TRUE]

pageBody(p, pg) ==
    << <<"MAINLAYER", ToString(mainMetaAt(p))>> >>
    \o (IF pg.hasBg THEN << <<"BGLAYER", ToString(bgMetaAt(p))>> >> ELSE <<>>)
    \o (IF pg.orient # "" THEN << <<"ORIENTATION", pg.orient>> >> ELSE <<>>)
    \o (IF pg.style # "" THEN << <<"PAGESTYLE", pg.style>> >> ELSE <<>>)

layerBody(addr, l) ==
    (IF l.hasBitmap
     THEN << <<"LAYERBITMAP", ToString(IF l.at = 0 THEN addr ELSE l.at)>> >>
     ELSE <<>>)
    \o << <<"LAYERPROTOCOL", l.proto>> >>

\* the metadata block of a layer and its bitmap block, at the layout's place
\* unless the layer is placed elsewhere
layerBlocks(metaAt, bitmapAt, l) ==
    (metaAt :> metaBlock(l.metaLen, layerBody(bitmapAt, l)))
    @@ ((IF l.placed THEN l.at ELSE bitmapAt) :> bitmapBlock(l.len, l.data, l.png))

pageBlocks(p, pg) ==
    (pageAt(p) :> metaBlock(80, pageBody(p, pg)))
    @@ layerBlocks(mainMetaAt(p), mainBitmapAt(p), pg.main)
    @@ (IF pg.hasBg THEN layerBlocks(bgMetaAt(p), bgBitmapAt(p), pg.bg) ELSE <<>>)

RECURSIVE allPageBlocks(_, _)
allPageBlocks(pages, k) ==
    IF k > Len(pages) THEN <<>>
    ELSE pageBlocks(k - 1, pages[k]) @@ allPageBlocks(pages, k + 1)

\* the size of a file of n pages
fileSize(n) == 10000 + 20000 * n + 10000

\* a file of the given pages, its signature and footer in place
noteFile(pages) ==
    [size |-> fileSize(Len(pages)), sig |-> TRUE, footerAddr |-> footerAt,
     blocks |-> (footerAt :> metaBlock(60, [k \in 1..Len(pages) |->
                                               <<"PAGE" \o ToString(k), ToString(pageAt(k - 1))>>]))
                @@ allPageBlocks(pages, 1)]

page(orient, style, main, hasBg, bg) ==
    [orient |-> orient, style |-> style, main |-> main, hasBg |-> hasBg, bg |-> bg]

\* a payload that fills 1404 x 1872 exactly: 160 long runs of the background
\* code and a merged holder of 1 + 63 + (53 << 7) = 6848 black pixels
mainExact == repeatPair(colBG, 255, 160) \o <<colBlack, 180, colBlack, 63>>

\* long runs of a code outside the palette, of 0x9E, of the background code
\* and of white, 161 in all
mainMixed == <<0, 255, 158, 255, colBG, 255>> \o repeatPair(colWhite, 255, 158)

\* a 0x140E-byte payload: one long run of black, then long runs of white
bgWhiteStyle == <<colBlack, 255>> \o repeatPair(colWhite, 255, 2566)

\* a 2 x 3 PNG: its decoded pixels, row by row
pngSmall ==
    [ok |-> TRUE, w |-> 2, h |-> 3,
     px |-> << [R |-> 0, G |-> 0, B |-> 0, A |-> 255], [R |-> 255, G |-> 255, B |-> 255, A |-> 255],
               [R |-> 255, G |-> 0, B |-> 0, A |-> 0], [R |-> 0, G |-> 255, B |-> 0, A |-> 255],
               [R |-> 0, G |-> 0, B |-> 255, A |-> 128], [R |-> 10, G |-> 20, B |-> 30, A |-> 255] >>]
pngData == pngSig \o [j \in 1..24 |-> 0]

pngLayer == layer("RATTA_RLE", Len(pngData), pngData, pngSmall)

\* twelve bytes, too few for a bitmap
tinyData == [j \in 1..12 |-> 0]
\* twelve bytes that begin with the PNG magic
tinyPngData == pngSig \o <<0, 0, 0, 0>>

\* a block whose length field declares more than any file of the model holds
overlong == 1000000

fileA ==
    noteFile(<< page("", "style_white", rleLayer(mainExact), TRUE, rleLayer(bgWhiteStyle)),
                page("1090", "", rleLayer(mainMixed), TRUE,
                     placedAt(layer("RATTA_RLE", 12, tinyData, noPng), fileSize(6) - 10)),
                page("", "", pngLayer, TRUE, layer("RATTA_X", 12, tinyPngData, noPng)),
                page("1090", "", pngLayer, TRUE, layer("RATTA_X", 12, tinyData, noPng)),
                page("", "", pngLayer, TRUE,
                     movedTo(rleLayer(repeatPair(colWhite, 255, 161)), fileSize(6))),
                page("", "", layer("RATTA_RLE", overlong, <<colBlack, 255>>, noPng), TRUE,
                     layer("RATTA_RLE", 12, tinyData, noPng)) >>)

fileB ==
    noteFile(<< page("", "", rleLayer(repeatPair(colBlack, 255, 300)), TRUE,
                     layer("RATTA_X", 20, repeatPair(colWhite, 255, 10), noPng)),
                page("1090", "style_white", rleLayer(<<colBlack, 0>>), FALSE, noLayer),
                page("1090", "", pngLayer, TRUE, rleLayer(repeatPair(colDark, 255, 161))),
                page("", "", pngLayer, TRUE, withoutBitmap(rleLayer(<<colWhite, 255>>))),
                page("1090", "", pngLayer, TRUE, rleLayer(repeatPair(colWhite, 5, 8))),
                page("", "", metaDeclaring(rleLayer(mainExact), overlong), TRUE,
                     layer("RATTA_RLE", 12, tinyData, noPng)) >>)

files == <<fileA, fileB>>
FileId == DOMAIN files

\* the variables of a specification that is not running
noReturn == [pix |-> NilBytes, w |-> 0, h |-> 0, err |-> ""]

rleIdle ==
    /\ call = [data |-> <<>>, w |-> 0, h |-> 0, allBlank |-> FALSE, horiz |-> FALSE]
    /\ loc = refEnter(0, 0, FALSE)
    /\ pc = "idle"
    /\ ret = noReturn

noFile == [size |-> 0, sig |-> FALSE, footerAddr |-> 0, blocks |-> <<>>]
noParsing ==
    [pc |-> "idle", file |-> noFile, pos |-> 0, footer |-> <<>>, todo |-> {},
     pageAddrs |-> <<>>, pages |-> <<>>, err |-> "", nb |-> noNotebook]
noPool == [mainPc |-> "idle"]
noSearch == [pc |-> "idle"]
noConv == [pc |-> "idle"]
mainIdle == pool = noPool /\ search = noSearch /\ conv = noConv
sideIdle == parsing = noParsing /\ mainIdle

noKept == [set |-> FALSE, nb |-> 0, idx |-> 0, img |-> NilImage, other |-> FALSE]

nbIdle ==
    /\ fileReader = 0
    /\ readerPos = 0
    /\ notebooks = <<>>
    /\ last = [op |-> "none"]
    /\ kept = noKept

compIdle ==
    /\ compMain = NilImage /\ compBg = NilImage
    /\ compIn = [mpix |-> <<>>, malpha |-> <<>>, bpix |-> <<>>]
    /\ compPc = "idle"

envNone == [RLE_FIX_BG |-> FALSE, SUPERNOTE_FORCE_HIRES |-> FALSE, SUPERNOTE_PNG_ROTATE |-> ""]

(***************************************************************************)
(* Spec: files are opened and parsed, and pages of the parsed notebooks    *)
(* are decoded, in any order.                                              *)
(***************************************************************************)
\* page indexes offered to DecodePage run from -1 to MaxPages
MaxPages == 6

noResult ==
    [img |-> NilImage, err |-> "", pos |-> 0, calls |-> layerCalls(<<>>, <<>>),
     main |-> NilImage, bg |-> NilImage]

Init ==
    /\ \E fix \in BOOLEAN, hires \in BOOLEAN, rot \in {"", "auto"} :
          env = [RLE_FIX_BG |-> fix, SUPERNOTE_FORCE_HIRES |-> hires,
                 SUPERNOTE_PNG_ROTATE |-> rot]
    /\ fileReader = 0
    /\ readerPos = 0
    /\ notebooks = [f \in FileId |-> [parsed |-> FALSE, err |-> "", nb |-> noNotebook]]
    /\ last = [op |-> "none", nb |-> 0, idx |-> 0, src |-> 0, res |-> noResult]
    /\ kept = noKept
    /\ rleIdle
    /\ compIdle
    /\ sideIdle

\* processNoteFile, lines 122-131: the file is opened, its cursor at 0, and
\* parsed; Parse leaves the package's fileReader on it
ParseFile(f) ==
    /\ ~notebooks[f].parsed
    /\ LET r == Parse(files[f], 0, env)
       IN  /\ fileReader' = f
           /\ readerPos' = r.pos
           /\ notebooks' = [notebooks EXCEPT ![f] = [parsed |-> TRUE, err |-> r.err, nb |-> r.nb]]
           /\ last' = [op |-> "Parse", nb |-> f, idx |-> 0, src |-> f, res |-> noResult]
    /\ UNCHANGED <<env, kept, rleVars, compVars, sideVars>>

\* nb.DecodePage(idx) on the notebook parsed from file f; its reads go
\* through the package's fileReader
DecodePageCall(f, idx) ==
    /\ notebooks[f].parsed /\ notebooks[f].err = ""
    /\ last' = [op |-> "DecodePage", nb |-> f, idx |-> idx, src |-> fileReader,
                res |-> DecodePage(notebooks[f].nb, idx, files[fileReader], readerPos, env)]
    /\ readerPos' = last'.res.pos
    /\ UNCHANGED <<env, fileReader, notebooks, kept, rleVars, compVars, sideVars>>

Next ==
    \/ \E f \in FileId : ParseFile(f)
    \/ \E f \in FileId, idx \in -1..MaxPages : DecodePageCall(f, idx)

Spec == Init /\ [][Next]_vars

(***************************************************************************)
(* SpecRepeat: one file has been opened and parsed, and pages of its       *)
(* notebook are decoded again and again, in any order.  Any successful     *)
(* call may be kept for comparison with the later calls for the same page. *)
(***************************************************************************)
InitRepeat ==
    /\ \E hires \in BOOLEAN : env = [envNone EXCEPT !.SUPERNOTE_FORCE_HIRES = hires]
    /\ fileReader \in FileId
    /\ notebooks = [f \in FileId |->
                       IF f = fileReader
                       THEN [parsed |-> TRUE, err |-> Parse(files[f], 0, env).err,
                             nb |-> Parse(files[f], 0, env).nb]
                       ELSE [parsed |-> FALSE, err |-> "", nb |-> noNotebook]]
    /\ readerPos = Parse(files[fileReader], 0, env).pos
    /\ last = [op |-> "Parse", nb |-> fileReader, idx |-> 0, src |-> fileReader,
               res |-> noResult]
    /\ kept = noKept
    /\ rleIdle
    /\ compIdle
    /\ sideIdle

\* the history kept after the call (f, idx) returned res
keptAfter(f, idx, res, keep) ==
    IF keep /\ res.err = ""
    THEN [set |-> TRUE, nb |-> f, idx |-> idx, img |-> res.img, other |-> FALSE]
    ELSE IF kept.set /\ kept.nb = f /\ kept.idx # idx /\ res.err = ""
    THEN [kept EXCEPT !.other = TRUE]
    ELSE kept

\* nb.DecodePage(idx) on the notebook parsed from file f, lines 92-104
RepeatDecode(f, idx) ==
    /\ notebooks[f].parsed /\ notebooks[f].err = ""
    /\ last' = [op |-> "DecodePage", nb |-> f, idx |-> idx, src |-> fileReader,
                res |-> DecodePage(notebooks[f].nb, idx, files[fileReader], readerPos, env)]
    /\ readerPos' = last'.res.pos
    /\ \E keep \in BOOLEAN : kept' = keptAfter(f, idx, last'.res, keep)
    /\ UNCHANGED <<env, fileReader, notebooks, rleVars, compVars, sideVars>>

NextRepeat ==
    \E f \in FileId, idx \in -1..MaxPages : RepeatDecode(f, idx)

SpecRepeat == InitRepeat /\ [][NextRepeat]_vars

(***************************************************************************)
(* SpecRLE: one decodeRattaRLERef call, stepped an iteration at a time, on *)
(* every payload, dimension and flag of the bounded input sets below.      *)
(***************************************************************************)
MaxPairs == 2

\* colour and length bytes of the enumerated payloads: black and the
\* background code; a short run, runs that fill the small and the large
\* buffer exactly, three holders and the 0xFF mark
pairColours == {colBlack, colBG}
pairLengths == {0, 19, 125, 128, 132, 253, 255}

\* (w, h) arguments: a 20-pixel buffer every long run overflows, and one
\* just above longLen
rleDims == {<<5, 4>>, <<130, 127>>}

RECURSIVE payloads(_)
\* the byte strings of at most k (colour, length) pairs over the alphabet
payloads(k) ==
    IF k = 0 THEN {<<>>}
    ELSE LET shorter == payloads(k - 1)
         IN  shorter \cup
             {p \o <<c, n>> : p \in {q \in shorter : Len(q) = 2 * (k - 1)},
                              c \in pairColours, n \in pairLengths}

\* single pairs over every colour byte
anyColourPairs == {<<c, n>> : c \in Byte, n \in {0, lenMark}}

\* a payload may end in a lone byte that forms no pair
rlePayloads ==
    LET whole == payloads(MaxPairs) \cup anyColourPairs
    IN  whole \cup {p \o <<colBlack>> : p \in payloads(MaxPairs)}

InitRLE ==
    /\ \E fix \in BOOLEAN : env = [envNone EXCEPT !.RLE_FIX_BG = fix]
    /\ \E data \in rlePayloads, d \in rleDims, allBlank \in BOOLEAN, horiz \in BOOLEAN :
          /\ call = [data |-> data, w |-> d[1], h |-> d[2],
                     allBlank |-> allBlank, horiz |-> horiz]
          /\ loc = refEnter(d[1], d[2], horiz)
    /\ pc = "loop"
    /\ ret = noReturn
    /\ compIdle
    /\ nbIdle
    /\ sideIdle

\* one iteration of the decoding loop
RefIterate ==
    /\ pc = "loop"
    /\ refLoopCond(loc, call.data)
    /\ loc' = refIterate(loc, call.data, call.allBlank, env.RLE_FIX_BG)
    /\ UNCHANGED <<env, call, pc, ret, compVars, nbVars, sideVars>>

\* the loop is left; tail adjustment
RefTailAdjust ==
    /\ pc = "loop"
    /\ ~refLoopCond(loc, call.data)
    /\ loc' = refTailAdjust(loc)
    /\ pc' = "return"
    /\ UNCHANGED <<env, call, ret, compVars, nbVars, sideVars>>

\* the size check and the return
RefReturn ==
    /\ pc = "return"
    /\ ret' = refReturn(loc)
    /\ pc' = "done"
    /\ UNCHANGED <<env, call, loc, compVars, nbVars, sideVars>>

NextRLE == RefIterate \/ RefTailAdjust \/ RefReturn

SpecRLE == InitRLE /\ [][NextRLE]_vars

(***************************************************************************)
(* Claims on the codec (checked under SpecRLE)                             *)
(***************************************************************************)

\* the pair the next iteration reads, and whether an iteration is due
curColor == call.data[loc.i + 1]
curLength == call.data[loc.i + 2]
iterating == pc = "loop" /\ refLoopCond(loc, call.data)
gapNow == loc.expected - loc.out.n
clampTo(x, gap) == IF x > gap THEN gap ELSE x

\* the locals after one more writeRun of `run` pixels of colour code c
afterRun(l, c, run) ==
    [l EXCEPT !.out = appendRun(l.out, grayOf(c), run),
              !.log = Append(@, [code |-> c, length |-> run, at |-> l.out.n])]

\* C2 (holder merge): an iteration that finds a holder (c1,l1) pending and
\* reads a pair (c2,l2) with c2 = c1 makes exactly one writeRun call, of
\* colour c1 and length min(1 + l2 + (((l1 & 0x7F) + 1) << 7), gap), whatever
\* l2 is; the pair is consumed and no holder is pending afterwards.
C2_HolderMerge ==
    [][(iterating /\ loc.haveHolder /\ curColor = loc.holdColor) =>
          LET run == clampTo(1 + curLength + (((loc.holdLen % 128) + 1) * 128), gapNow)
          IN  /\ loc' = [afterRun(loc, loc.holdColor, run)
                            EXCEPT !.i = loc.i + 2, !.haveHolder = FALSE]
              /\ Len(loc'.log) = Len(loc.log) + 1
              /\ loc'.out.n = loc.out.n + run
              /\ run > 0]_vars

\* a merge whose second length byte is 0xFF, unclamped: 1 + 255 + 128 pixels
C2_Witness ==
    /\ pc = "loop" /\ loc.i = 4 /\ ~loc.haveHolder
    /\ call.data[1] = call.data[3] /\ call.data[2] = 128 /\ call.data[4] = lenMark
    /\ loc.log = <<[code |-> call.data[1], length |-> 384, at |-> 0]>>
    /\ loc.out = filled(grayOf(call.data[1]), 384)

\* C3 (holder flush-alone): an iteration that finds a holder (c1,l1) pending
\* and reads a pair (c2,l2) with c2 # c1 first writes
\* min(1 + (((l1 & 0x7F) + 1) << 7), gap) pixels of colour c1 and then treats
\* (c2,l2) exactly as a pair met with no holder pending; the flushed run
\* precedes whatever the pair emits.
C3_FlushAlone ==
    [][(iterating /\ loc.haveHolder /\ curColor # loc.holdColor) =>
          LET run == clampTo(1 + (((loc.holdLen % 128) + 1) * 128), gapNow)
              flushed == [afterRun(loc, loc.holdColor, run)
                            EXCEPT !.i = loc.i + 2, !.haveHolder = FALSE]
              k == Len(loc.log)
          IN  /\ loc' = refProcessPair(flushed, curColor, curLength,
                                       call.allBlank, env.RLE_FIX_BG)
              /\ loc'.log[k + 1] = [code |-> loc.holdColor, length |-> run, at |-> loc.out.n]
              /\ Len(loc'.log) \in {k + 1, k + 2}
              /\ Len(loc'.log) = k + 2 =>
                    /\ loc'.log[k + 2].code = curColor
                    /\ loc'.log[k + 2].at = loc.out.n + run
                    /\ ~loc'.haveHolder
              /\ Len(loc'.log) = k + 1 =>
                    /\ loc'.haveHolder
                    /\ loc'.holdColor = curColor /\ loc'.holdLen = curLength]_vars

\* the spec's example [0x61,0x80,0x62,0x00]: 129 black pixels, then one of 0xFF
C3_Witness ==
    /\ pc = "loop" /\ loc.i = 4 /\ ~loc.haveHolder
    /\ call.data[1] = colBlack /\ call.data[2] = 128
    /\ call.data[3] = colBG /\ call.data[4] = 0
    /\ loc.log = <<[code |-> colBlack, length |-> 129, at |-> 0],
                   [code |-> colBG, length |-> 1, at |-> 129]>>
    /\ loc.out.runs = <<[g |-> 0, n |-> 129], [g |-> 255, n |-> 1]>>

\* what precedes the pair's own processing in an iteration that does not merge:
\* the flushed holder, if one was pending
flushRun == clampTo(1 + (((loc.holdLen % 128) + 1) * 128), gapNow)
preLocals ==
    IF loc.haveHolder
    THEN [afterRun(loc, loc.holdColor, flushRun) EXCEPT !.i = loc.i + 2, !.haveHolder = FALSE]
    ELSE [loc EXCEPT !.i = loc.i + 2]

\* the iteration's effect when the pair (c,l) is classified with a long run
\* of `special` pixels for l = 0xFF, every emission being clamped to the gap
classifiedAs(special) ==
    LET pre == preLocals
        gap == pre.expected - pre.out.n
    IN  IF curLength = 255
        THEN loc' = afterRun(pre, curColor, clampTo(special, gap))
        ELSE IF curLength >= 128
        THEN /\ loc' = [pre EXCEPT !.haveHolder = TRUE,
                                   !.holdColor = curColor, !.holdLen = curLength]
             /\ loc'.out = pre.out /\ loc'.log = pre.log
        ELSE loc' = afterRun(pre, curColor, clampTo(curLength + 1, gap))

notMerging == iterating /\ ~(loc.haveHolder /\ curColor = loc.holdColor)

C5_TailStep ==
    (pc = "loop" /\ ~refLoopCond(loc, call.data) /\ loc.haveHolder /\ gapNow > 0) =>
        LET base == (loc.holdLen % 128) + 1
            fits == {k \in 0..7 : base * (2 ^ k) <= gapNow}
            kmax == CHOOSE k \in fits : \A j \in fits : j <= k
            count == IF fits = {} THEN 0 ELSE base * (2 ^ kmax)
        IN  /\ count <= gapNow
            /\ loc' = IF count = 0 THEN loc ELSE afterRun(loc, loc.holdColor, count)
            /\ loc'.out.n = loc.out.n + count

C5_TailAdjustment ==
    /\ [][C5_TailStep]_vars
    /\ [](pc = "done" /\ loc.haveHolder /\ loc.out.n < loc.expected =>
             ret.err = "ratta_ref decoded" /\ ret.pix = NilBytes)

\* the spec's example scaled to the model's buffer: a trailing holder
\* (c, 0x84) with gap 20 takes k = 2 and emits 20 pixels; the decode succeeds
C5_Witness ==
    /\ pc = "done" /\ call.data = <<colBlack, 132>>
    /\ loc.expected = 20
    /\ loc.log = <<[code |-> colBlack, length |-> 20, at |-> 0]>>
    /\ ret.err = "" /\ ret.pix = filled(0, 20)

\* the palette of the eight codes, every other byte 0xC9
statedGray(c) ==
    IF c \in {colBlack, colMBlack} THEN 0
    ELSE IF c \in {colDark, colMDark} THEN 157
    ELSE IF c = colWhite THEN 254
    ELSE IF c = colBG THEN 255
    ELSE 201

\* every pixel a writeRun call of the log wrote has the grayscale gray(code)
writtenAs(gray(_)) ==
    \A k \in DOMAIN loc.log :
        \A i \in {loc.log[k].at} \cup runStarts(loc.out) :
            (loc.log[k].at <= i /\ i < loc.log[k].at + loc.log[k].length
             /\ i < loc.out.n) => byteAt(loc.out, i) = gray(loc.log[k].code)

pixelsInPalette == \A k \in DOMAIN loc.out.runs : loc.out.runs[k].g \in {0, 157, 201, 254, 255}

amendedGray(c) == IF c \in {157, 158} THEN 157 ELSE statedGray(c)

MaxRuns == 3

writeRunDims == {<<5, 4>>, <<3, 2>>}
writeRunCodes == {colBlack, colBG}
writeRunLengths == {-1, 0, 1, 3, 7, 20}

InitWriteRun ==
    /\ env = envNone
    /\ \E d \in writeRunDims :
          /\ call = [data |-> <<>>, w |-> d[1], h |-> d[2],
                     allBlank |-> FALSE, horiz |-> FALSE]
          /\ loc = refEnter(d[1], d[2], FALSE)
    /\ pc = "writeRun"
    /\ ret = noReturn
    /\ compIdle
    /\ nbIdle
    /\ sideIdle

\* writeRun(&out, expected, w, code, length)
WriteRunCall ==
    /\ pc = "writeRun"
    /\ Len(loc.log) < MaxRuns
    /\ \E code \in writeRunCodes, length \in writeRunLengths :
          loc' = emit(loc, code, length)
    /\ UNCHANGED <<env, call, pc, ret, compVars, nbVars, sideVars>>

NextWriteRun == WriteRunCall

SpecWriteRun == InitWriteRun /\ [][NextWriteRun]_vars

\* the writeRun calls made so far that were passed a length above 0
written == {k \in DOMAIN loc.log : loc.log[k].length > 0}

\* len(out) when the k-th writeRun call returned
endOfRun(k) == IF k < Len(loc.log) THEN loc.log[k + 1].at ELSE loc.out.n

\* the chunks of the k-th writeRun call
chunksOf(k) == writeRunChunks(loc.log[k].at, loc.expected, loc.w, loc.log[k].length)

RECURSIVE unchunked(_, _)
\* the buffer after the calls k.. of the log, each call of a length above 0
\* taken as one append of min(length, expected - len(out)) bytes
unchunked(out, k) ==
    IF k > Len(loc.log) THEN out
    ELSE LET e == loc.log[k]
             m == min2(e.length, loc.expected - out.n)
         IN  unchunked(IF e.length > 0 /\ m > 0 THEN appendRun(out, grayOf(e.code), m) ELSE out,
                       k + 1)

\* C28: after any writeRun calls len(out) is at most W*H; a call with a
\* length above 0 appends min(length, W*H - len(out)) bytes, all of the
\* grayscale of its colour code; its chunks follow one another from the old
\* end of the buffer to the new one, none is empty and none holds bytes of
\* two rows; and the buffer is the one that a single append per call gives.
C28_WriteRun ==
    /\ loc.out.n <= loc.expected
    /\ WellFormed(loc.out)
    /\ writtenAs(grayOf)
    /\ loc.out = unchunked(EmptyBytes, 1)
    /\ \A k \in written :
          LET e == loc.log[k]
              ch == chunksOf(k)
          IN  /\ endOfRun(k) = e.at + min2(e.length, loc.expected - e.at)
              /\ endOfRun(k) > e.at =>
                    /\ ch # <<>>
                    /\ ch[1].at = e.at
                    /\ ch[Len(ch)].at + ch[Len(ch)].n = endOfRun(k)
              /\ endOfRun(k) = e.at => ch = <<>>
              /\ \A j \in DOMAIN ch :
                    /\ ch[j].n > 0
                    /\ j > 1 => ch[j].at = ch[j - 1].at + ch[j - 1].n
                    /\ ch[j].at \div loc.w = (ch[j].at + ch[j].n - 1) \div loc.w

\* a buffer of 5 columns and 4 rows: 3 background pixels, then a run of 20
\* black pixels that is cut to the 17 left and written in four chunks, the
\* first of 2 pixels to the end of the first row; a third call finds the
\* buffer full
C28_Witness ==
    /\ loc.w = 5 /\ loc.expected = 20
    /\ loc.log = <<[code |-> colBG, length |-> 3, at |-> 0],
                   [code |-> colBlack, length |-> 20, at |-> 3],
                   [code |-> colBlack, length |-> 7, at |-> 20]>>
    /\ chunksOf(2) = <<[at |-> 3, n |-> 2], [at |-> 5, n |-> 5],
                       [at |-> 10, n |-> 5], [at |-> 15, n |-> 5]>>
    /\ chunksOf(3) = <<>>
    /\ loc.out = appendRun(filled(255, 3), 0, 17)

(***************************************************************************)
(* SpecComposite: one Composite call on every pair of small images whose   *)
(* planes may differ in length.                                            *)
(***************************************************************************)
MaxPix == 3

RECURSIVE seqsUpTo(_, _)
\* the sequences over S of length at most k
seqsUpTo(S, k) ==
    IF k = 0 THEN {<<>>}
    ELSE LET shorter == seqsUpTo(S, k - 1)
         IN  shorter \cup {Append(q, x) : q \in {t \in shorter : Len(t) = k - 1}, x \in S}

InitComposite ==
    /\ env = envNone
    /\ rleIdle
    /\ nbIdle
    /\ sideIdle
    /\ \E mp \in seqsUpTo({0, 255}, MaxPix),
          ma \in seqsUpTo({0, 128, 255}, MaxPix),
          bp \in seqsUpTo({128, 254}, MaxPix),
          mainNil \in BOOLEAN, alphaNil \in BOOLEAN, bgNil \in BOOLEAN :
          /\ mainNil => mp = <<>> /\ ma = <<>> /\ alphaNil
          /\ alphaNil => ma = <<>>
          /\ bgNil => bp = <<>>
          /\ compMain = IF mainNil THEN NilImage
                        ELSE image(bytesOf(mp), IF alphaNil THEN NilBytes ELSE bytesOf(ma),
                                   Len(mp), 1)
          /\ compBg = IF bgNil THEN NilImage
                      ELSE image(bytesOf(bp), bytesOf([j \in 1..Len(bp) |-> 255]), Len(bp), 1)
          /\ compIn = [mpix |-> mp, malpha |-> ma, bpix |-> bp]
    /\ compPc = "call"

\* Composite(compMain, compBg), called once and then once more
CompositeCall ==
    /\ compPc \in {"call", "done"}
    /\ LET r == Composite(compMain, compBg)
       IN  compMain' = r.main /\ compBg' = r.bg
    /\ compPc' = IF compPc = "call" THEN "done" ELSE "again"
    /\ UNCHANGED <<env, rleVars, compIn, nbVars, sideVars>>

NextComposite == CompositeCall

SpecComposite == InitComposite /\ [][NextComposite]_vars

\* C10 (compositor effect and frame): after Composite(M,B), for every index
\* i below min(len(M.pix), len(B.pix), len(M.alpha)) whose alpha byte was 0,
\* M.pix[i] is B.pix[i] and M.alpha[i] is 255; every other byte of M's two
\* planes, M's dimensions and nil-ness, and all of B are as before.
C10_CompositeEffect ==
    [][compPc = "call" =>
          LET mp == compIn.mpix
              ma == compIn.malpha
              bp == compIn.bpix
              taken(i) == i <= Len(mp) /\ i <= Len(bp) /\ i <= Len(ma) /\ ma[i] = 0
          IN  /\ seqOf(compMain'.pix) = [i \in 1..Len(mp) |-> IF taken(i) THEN bp[i] ELSE mp[i]]
              /\ seqOf(compMain'.alpha) = [i \in 1..Len(ma) |-> IF taken(i) THEN 255 ELSE ma[i]]
              /\ WellFormed(compMain'.pix) /\ WellFormed(compMain'.alpha)
              /\ compMain'.pix.nil = compMain.pix.nil
              /\ compMain'.alpha.nil = compMain.alpha.nil
              /\ compMain'.W = compMain.W /\ compMain'.H = compMain.H
              /\ compMain'.nil = compMain.nil
              /\ compBg' = compBg]_vars

\* planes of three different lengths: the first pixel is taken from the
\* background, the second is transparent but beyond the background's end
C10_Witness ==
    /\ compPc = "done"
    /\ compIn = [mpix |-> <<255, 0, 255>>, malpha |-> <<0, 0>>, bpix |-> <<128>>]
    /\ seqOf(compMain.pix) = <<128, 0, 255>>
    /\ seqOf(compMain.alpha) = <<255, 0>>

\* C12 (idempotence): a second Composite call on the same two images leaves
\* the main image, its planes, dimensions and nil-ness, and the background
\* exactly as the first call left them.
C12_Idempotent ==
    [][compPc = "done" => (compMain' = compMain /\ compBg' = compBg)]_vars

\* the second call made after a first that took a pixel from the background
\* and left a transparent pixel beyond the background's end
C12_Witness ==
    /\ compPc = "again"
    /\ compIn = [mpix |-> <<255, 0, 255>>, malpha |-> <<0, 0>>, bpix |-> <<128>>]
    /\ seqOf(compMain.pix) = <<128, 0, 255>>
    /\ seqOf(compMain.alpha) = <<255, 0>>

(***************************************************************************)
(* Claims about the notebook operations, checked under Spec                *)
(***************************************************************************)
decoded == last.op = "DecodePage"
layerKeys == {"MAINLAYER", "BGLAYER"}
layerOf(key) == IF key = "MAINLAYER" THEN last.res.main ELSE last.res.bg
callsOf(key) == last.res.calls[key]
lastCall(key) == callsOf(key)[Len(callsOf(key))]
\* the page the last DecodePage call named
pageOfLast == notebooks[last.nb].nb.Pages[last.idx + 1]
inRange == last.idx >= 0 /\ last.idx < Len(notebooks[last.nb].nb.Pages)

\* C1 as stated: every DecodePage call that reads at all reads the byte
\* source its notebook was parsed from.
C1_ReadsOwnSource ==
    (decoded /\ inRange) => last.src = last.nb

\* the codec's return contract for one call
exactOrNothing(c) ==
    IF c.produced = c.w * c.h
    THEN /\ c.ret.err = ""
         /\ ~c.ret.pix.nil /\ c.ret.pix.n = c.w * c.h
         /\ c.ret.w * c.ret.h = c.w * c.h
         /\ c.ret.w = (IF c.horiz THEN c.h ELSE c.w)
    ELSE c.ret = [pix |-> NilBytes, w |-> 0, h |-> 0, err |-> "ratta_ref decoded"]

\* C6: every codec call returns a buffer exactly when it produced W*H
\* pixels, and otherwise a size-mismatch error with nil pixels and zero
\* dimensions; a layer whose last codec call fell short has no raster, a
\* failed main layer fails the page, and a raster made by the codec has
\* exactly W*H pixels, those of a call that produced them all.
C6_Completion ==
    decoded =>
        /\ \A key \in layerKeys :
              /\ \A k \in DOMAIN callsOf(key) : exactOrNothing(callsOf(key)[k])
              /\ callsOf(key) # <<>> =>
                    IF lastCall(key).produced = lastCall(key).expected
                    THEN /\ ~layerOf(key).nil
                         /\ layerOf(key).pix = lastCall(key).ret.pix
                         /\ layerOf(key).pix.n = layerOf(key).W * layerOf(key).H
                         /\ layerOf(key).alpha.n = layerOf(key).pix.n
                    ELSE layerOf(key).nil
        /\ (callsOf("MAINLAYER") # <<>>
            /\ lastCall("MAINLAYER").produced # lastCall("MAINLAYER").expected) =>
              (last.res.err # "" /\ last.res.img.nil)

\* a main layer whose only decode stopped short of W*H: the page fails
C6_Witness ==
    /\ decoded
    /\ Len(callsOf("MAINLAYER")) = 1
    /\ lastCall("MAINLAYER").produced > 0
    /\ lastCall("MAINLAYER").produced < lastCall("MAINLAYER").expected
    /\ last.res.err = "main layer: ratta_ref decoded" /\ last.res.img.nil

\* C7 as stated: the hint of every codec call DecodePage makes is set
\* exactly when the page's PAGESTYLE is "style_white" and the layer's bitmap
\* block is 0x140E bytes long.
C7_HintWiring ==
    decoded =>
        \A key \in layerKeys : \A k \in DOMAIN callsOf(key) :
            callsOf(key)[k].allBlank =
                (lookup(pageOfLast, "PAGESTYLE") = "style_white"
                 /\ callsOf(key)[k].len = specialWhiteStyleBlockSize)

\* the writeRun calls of c tile the buffer from 0 to its end
tiles(c) ==
    /\ c.log # <<>> => c.log[1].at = 0
    /\ \A k \in 1..(Len(c.log) - 1) :
          c.log[k + 1].at = min2(c.log[k].at + c.log[k].length, c.expected)

horizOfLast == lookup(pageOfLast, "ORIENTATION") = "1090"
\* every byte of the plane s is g
allBytes(s, g) == \A k \in DOMAIN s.runs : s.runs[k].g = g

\* C11 as stated: when DecodePage returns a raster for a page whose
\* background layer decoded, every alpha byte of the raster is 255.
C11_AllOpaque ==
    (decoded /\ last.res.err = "" /\ ~last.res.bg.nil) => allBytes(last.res.img.alpha, 255)

\* the file the last call read
srcOfLast == files[last.src]
\* the layer's metadata as the last call read it
layerMetaOf(key) == readMeta(srcOfLast, 0, parseInt(pageOfLast[key]).n)
\* the layer's bitmap block was read: its metadata names a bitmap and a
\* whole block starts there
hasBlock(key) ==
    /\ key \in DOMAIN pageOfLast
    /\ layerMetaOf(key).err = ""
    /\ "LAYERBITMAP" \in DOMAIN layerMetaOf(key).params
    /\ parseInt(layerMetaOf(key).params["LAYERBITMAP"]).n \in DOMAIN srcOfLast.blocks
blockOf(key) == srcOfLast.blocks[parseInt(layerMetaOf(key).params["LAYERBITMAP"]).n]
protoOf(key) == lookup(layerMetaOf(key).params, "LAYERPROTOCOL")
hasPngMagic(b) == Len(b.data) >= 8 /\ SubSeq(b.data, 1, 8) = pngSig
\* the loader was asked for the layer: the main layer of a page in range,
\* the background once the main layer has decoded
asked(key) ==
    /\ decoded /\ inRange
    /\ key = "BGLAYER" => last.res.err = ""

\* C13 as stated: a layer of either key whose bitmap block is at least 8
\* bytes long and begins with the PNG magic comes out of the PNG branch,
\* whatever its protocol and length: the raster is the decoded PNG's, and
\* the layer fails when the PNG does not decode.
C13_PngPrecedence ==
    \A key \in layerKeys :
        (asked(key) /\ hasBlock(key) /\ blockOf(key).len >= 8 /\ hasPngMagic(blockOf(key))) =>
            layerOf(key) = pngBranch(blockOf(key).png, horizOfLast, env, 0).img

\* the raster the loader makes up for a background that has no bitmap
syntheticBackground ==
    image(filled(254, 1404 * 1872), filled(255, 1404 * 1872), 1404, 1872)

\* what the decoder selection makes of the block: PNG by its magic, else by
\* the protocol
selected(key) ==
    IF hasPngMagic(blockOf(key))
    THEN pngBranch(blockOf(key).png, horizOfLast, env, 0)
    ELSE IF protoOf(key) = "RATTA_RLE"
    THEN rleBranch(notebooks[last.nb].nb, blockOf(key).data, horizOfLast, env, 0)
    ELSE failed("unsupported protocol", 0, <<>>)

\* C14: a background layer whose bitmap block is shorter than 16 bytes and
\* has no PNG magic comes back as the 1404 x 1872 raster of 0xFE with alpha
\* 255, whatever its protocol; a main layer with such a block is not made
\* up: it is what the decoder selection makes of the block, and the page
\* fails when that fails.
C14_SyntheticBackground ==
    /\ (asked("BGLAYER") /\ hasBlock("BGLAYER") /\ blockOf("BGLAYER").len < 16
        /\ ~hasPngMagic(blockOf("BGLAYER"))) =>
          last.res.bg = syntheticBackground
    /\ (asked("MAINLAYER") /\ hasBlock("MAINLAYER") /\ blockOf("MAINLAYER").len < 16) =>
          /\ last.res.main # syntheticBackground
          /\ IF selected("MAINLAYER").err = ""
             THEN last.res.err = "" /\ last.res.main = selected("MAINLAYER").img
             ELSE /\ last.res.err = "main layer: " \o selected("MAINLAYER").err
                  /\ last.res.img.nil

\* a 12-byte background block of an unsupported protocol, made up, on a
\* page stored horizontally
C14_Witness ==
    /\ asked("BGLAYER") /\ hasBlock("BGLAYER")
    /\ blockOf("BGLAYER").len = 12 /\ ~hasPngMagic(blockOf("BGLAYER"))
    /\ protoOf("BGLAYER") = "RATTA_X" /\ horizOfLast
    /\ last.res.bg = syntheticBackground
    /\ last.res.bg.pix.n = 2628288

nbOfLast == notebooks[last.nb].nb
nonDefaultDims == nbOfLast.W # 1404 \/ nbOfLast.H # 1872

\* C15: the first decode of a layer is made at the notebook's dimensions;
\* a second is made exactly when those are not the default and the first
\* failed on the size, and it is made at (1404, 1872) on the same payload
\* and orientation, and is the last; if it succeeds the layer is its raster
\* with the default dimensions, exchanged on a horizontal page; if it fails
\* the layer fails, and so does the page when the layer is the main one.
C15_DimensionFallback ==
    decoded =>
        \A key \in layerKeys :
            LET cs == callsOf(key)
            IN  cs # <<>> =>
                  /\ Len(cs) <= 2
                  /\ cs[1].w = nbOfLast.W /\ cs[1].h = nbOfLast.H
                  /\ Len(cs) = 2 <=> (nonDefaultDims /\ cs[1].ret.err = "ratta_ref decoded")
                  /\ Len(cs) = 2 =>
                        /\ cs[2].w = 1404 /\ cs[2].h = 1872
                        /\ cs[2].horiz = cs[1].horiz /\ cs[2].len = cs[1].len
                        /\ IF cs[2].ret.err = ""
                           THEN /\ ~layerOf(key).nil
                                /\ layerOf(key).pix = cs[2].ret.pix
                                /\ layerOf(key).W = (IF cs[2].horiz THEN 1872 ELSE 1404)
                                /\ layerOf(key).H = (IF cs[2].horiz THEN 1404 ELSE 1872)
                           ELSE /\ layerOf(key).nil
                                /\ key = "MAINLAYER" =>
                                      last.res.err = "main layer: ratta_ref decoded"

\* a notebook of 1920 x 2560 whose main layer fills 1404 x 1872: the first
\* decode falls short, the second gives the raster
C15_Witness ==
    /\ decoded /\ nbOfLast.W = 1920 /\ nbOfLast.H = 2560
    /\ Len(callsOf("MAINLAYER")) = 2
    /\ callsOf("MAINLAYER")[1].produced = 2628288
    /\ callsOf("MAINLAYER")[1].expected = 4915200
    /\ callsOf("MAINLAYER")[2].ret.err = ""
    /\ last.res.err = "" /\ last.res.main.W = 1404 /\ last.res.main.H = 1872

\* C16 as stated: the raster a successful DecodePage returns is 1872 wide
\* and 1404 high on a page whose ORIENTATION is "1090", and 1404 wide and
\* 1872 high on every other page.
C16_OrientationDims ==
    (decoded /\ last.res.err = "") =>
        /\ last.res.img.W = (IF horizOfLast THEN 1872 ELSE 1404)
        /\ last.res.img.H = (IF horizOfLast THEN 1404 ELSE 1872)

\* the planes of a decoded PNG in the PNG's own layout
pngPlain(png) ==
    image(bytesOf([i \in 1..(png.w * png.h) |-> pngLuma(png.px[i])]),
          bytesOf([i \in 1..(png.w * png.h) |-> png.px[i].A]), png.w, png.h)

\* the planes turned a quarter clockwise: the pixel at (x, y) goes to
\* (h - 1 - y, x) of a raster h wide and w high
pngRotatedCw(png) ==
    LET at(j) == LET nx == (j - 1) % png.h
                     ny == (j - 1) \div png.h
                 IN  png.px[(png.h - 1 - nx) * png.w + ny + 1]
    IN  image(bytesOf([j \in 1..(png.w * png.h) |-> pngLuma(at(j))]),
              bytesOf([j \in 1..(png.w * png.h) |-> at(j).A]), png.h, png.w)

\* the layer went through the PNG branch and its PNG decoded
throughPng(key) ==
    /\ asked(key) /\ hasBlock(key)
    /\ key = "BGLAYER" => blockOf(key).len >= 16
    /\ hasPngMagic(blockOf(key)) /\ blockOf(key).png.ok

\* C17 as stated: a layer decoded through the PNG branch is the PNG turned
\* a quarter clockwise when the page's ORIENTATION is "1090", and the PNG in
\* its own layout otherwise.
C17_PngRotation ==
    \A key \in layerKeys :
        throughPng(key) =>
            layerOf(key) = (IF horizOfLast THEN pngRotatedCw(blockOf(key).png)
                            ELSE pngPlain(blockOf(key).png))

\* what the layer loader makes of the layer key of the page the last call
\* named, in the file the call read
loaded(key) ==
    decodeLayerFromPage(nbOfLast, pageOfLast, key, srcOfLast, 0, env)
bgFailures ==
    {"layer bitmap missing", "EOF", "unexpected EOF", "unsupported protocol",
     "ratta_ref decoded (exact size required)", "ratta_ref decoded (fallback)",
     "ratta_ref decoded", "png decode", "seek"}

\* C18: DecodePage returns an error, and no raster, exactly when the index
\* is out of range or the main layer does not load, and a raster and no
\* error otherwise; when the main layer loads and the background does not,
\* the raster is the main layer as loaded, and no background is kept.
C18_ErrorSurface ==
    decoded =>
        /\ last.res.err # "" <=> (~inRange \/ loaded("MAINLAYER").err # "")
        /\ last.res.err # "" <=> last.res.img.nil
        /\ (inRange /\ loaded("MAINLAYER").err = "" /\ "BGLAYER" \in DOMAIN pageOfLast
                /\ loaded("BGLAYER").err # "") =>
              /\ loaded("BGLAYER").err \in bgFailures
              /\ last.res.err = ""
              /\ last.res.bg.nil
              /\ last.res.img = loaded("MAINLAYER").img

\* a background of an unsupported protocol under a main layer that loads
C18_Witness ==
    /\ decoded /\ inRange
    /\ "BGLAYER" \in DOMAIN pageOfLast
    /\ loaded("BGLAYER").err = "unsupported protocol"
    /\ last.res.err = "" /\ last.res.bg.nil
    /\ ~last.res.img.nil /\ last.res.img = loaded("MAINLAYER").img

\* fewer than four bytes of the file are left at addr
noLength(file, addr) == addr + addressSize > file.size
\* the length field at addr declares more than the file has left
shortPayload(file, addr) ==
    /\ ~noLength(file, addr)
    /\ \/ addr \notin DOMAIN file.blocks
       \/ addr + addressSize + file.blocks[addr].len > file.size
cutOff(file, addr) == noLength(file, addr) \/ shortPayload(file, addr)

layerMetaAt(key) == parseInt(pageOfLast[key]).n
metaCutOff(key) ==
    /\ key \in DOMAIN pageOfLast
    /\ layerMetaAt(key) # 0 /\ cutOff(srcOfLast, layerMetaAt(key))
bitmapAt(key) == parseInt(layerMetaOf(key).params["LAYERBITMAP"]).n
bitmapCutOff(key) ==
    /\ key \in DOMAIN pageOfLast
    /\ layerMetaOf(key).err = "" /\ "LAYERBITMAP" \in DOMAIN layerMetaOf(key).params
    /\ cutOff(srcOfLast, bitmapAt(key))
\* the layer's metadata block or its bitmap block is cut off by the end of
\* the file
truncated(key) == metaCutOff(key) \/ bitmapCutOff(key)
\* the background's bitmap declares fewer than 16 bytes: its payload is not
\* read
neverRead(key) ==
    /\ key = "BGLAYER" /\ ~metaCutOff(key) /\ bitmapCutOff(key)
    /\ bitmapAt(key) \in DOMAIN srcOfLast.blocks
    /\ srcOfLast.blocks[bitmapAt(key)].len < 16
truncation == {"EOF", "unexpected EOF"}

\* C19 as stated: when the metadata block or the bitmap block of a layer
\* the loader was asked for is cut off by the end of the file, DecodePage
\* returns a truncation error and no raster.
C19_AsStated ==
    \A key \in layerKeys :
        (asked(key) /\ truncated(key)) =>
            /\ last.res.err \in {"main layer: " \o t : t \in truncation} \cup truncation
            /\ last.res.img.nil

\* C19: when the metadata block or the bitmap block of a layer the loader
\* was asked for is cut off by the end of the file, the read fails with a
\* truncation error, no map comes out of a cut-off metadata block and no
\* raster out of the layer; DecodePage then returns the truncation error
\* and no raster when the layer is the main layer, and the main layer as
\* loaded, without a background and without an error, when it is the
\* background.  A background bitmap that declares fewer than 16 bytes is
\* the exception: its payload is never read and the background is the
\* synthetic one.
C19_Truncation ==
    \A key \in layerKeys :
        (asked(key) /\ truncated(key)) =>
            /\ metaCutOff(key) =>
                  layerMetaOf(key).err \in truncation /\ layerMetaOf(key).params = <<>>
            /\ IF neverRead(key)
               THEN /\ loaded(key).err = ""
                    /\ last.res.err = "" /\ last.res.bg = syntheticBackground
               ELSE /\ loaded(key).err \in truncation /\ loaded(key).img.nil
                    /\ IF key = "MAINLAYER"
                       THEN /\ last.res.err = "main layer: " \o loaded(key).err
                            /\ last.res.img.nil
                       ELSE /\ last.res.err = "" /\ last.res.bg.nil
                            /\ last.res.img = loaded("MAINLAYER").img

\* a main layer whose bitmap block declares more than the file holds
C19_Witness ==
    /\ asked("MAINLAYER") /\ ~metaCutOff("MAINLAYER")
    /\ bitmapCutOff("MAINLAYER")
    /\ srcOfLast.blocks[bitmapAt("MAINLAYER")].len = overlong
    /\ last.res.err = "main layer: unexpected EOF" /\ last.res.img.nil

\* the last call is a successful decode of the page of the kept call
repeated ==
    /\ kept.set /\ decoded
    /\ last.nb = kept.nb /\ last.idx = kept.idx
    /\ last.res.err = ""

composited == decoded /\ last.res.err = "" /\ ~last.res.bg.nil

\* C30: whenever DecodePage calls Composite, the main layer and the
\* background layer have the same width and the same height.
C30_SameDimensions ==
    composited =>
        /\ last.res.main.W = last.res.bg.W
        /\ last.res.main.H = last.res.bg.H

(***************************************************************************)
(* SpecParse: one Parse call, stepped, on every file whose trailer is one  *)
(* of the bounded bodies below.  The range over the footer map visits its  *)
(* keys in any order.  The file holds the trailer at 100 and the           *)
(* descriptors of two pages at 200 and 300; nothing starts at 400.         *)
(***************************************************************************)
MaxKeys == 3

trailerKeys == {"PAGE1", "PAGE2", "COVER_0"}
trailerValues == {"200", "300", "400", "x"}
trailerBodies == seqsUpTo(trailerKeys \X trailerValues, MaxKeys)

\* the descriptor of page p
descriptorOf(p) == << <<"MAINLAYER", ToString(mainMetaAt(p))>> >>

trailerFile(body, sig) ==
    [size |-> 1000, sig |-> sig, footerAddr |-> footerAt,
     blocks |-> (footerAt :> metaBlock(60, body))
                @@ (pageAt(0) :> metaBlock(20, descriptorOf(0)))
                @@ (pageAt(1) :> metaBlock(20, descriptorOf(1)))]

RECURSIVE insertAscDropping(_, _)
\* mutant: an offset already there is not put in again
insertAscDropping(s, a) ==
    IF s = <<>> THEN <<a>>
    ELSE IF a < Head(s) THEN <<a>> \o s
    ELSE IF a = Head(s) THEN s
    ELSE <<Head(s)>> \o insertAscDropping(Tail(s), a)

RECURSIVE insertAsc(_, _)
\* the ascending sequence s with a put in
insertAsc(s, a) ==
    IF s = <<>> THEN <<a>>
    ELSE IF a < Head(s) THEN <<a>> \o s
    ELSE <<Head(s)>> \o insertAsc(Tail(s), a)

\* mutant: the offsets are left in the order the range met them
sortAscNot(s) == s

RECURSIVE sortAsc(_)
\* line 69: sort.Slice(pageAddrs, less)
sortAsc(s) == IF s = <<>> THEN <<>> ELSE insertAsc(sortAsc(Tail(s)), Head(s))

InitParse ==
    /\ env = envNone
    /\ \E body \in trailerBodies, sig \in BOOLEAN :
          parsing = [noParsing EXCEPT !.pc = "open", !.file = trailerFile(body, sig)]
    /\ rleIdle
    /\ compIdle
    /\ nbIdle
    /\ mainIdle

parseFailed(err, pos) ==
    [parsing EXCEPT !.pc = "done", !.err = err, !.pos = pos, !.pages = <<>>]

\* lines 43-62: the signature, the trailer offset and the trailer
ParseOpen ==
    /\ parsing.pc = "open"
    /\ LET file == parsing.file
           headEnd == IF 64 > file.size THEN file.size ELSE 64
           footer == readMeta(file, file.size, file.footerAddr)
       IN  parsing' =
             IF ~file.sig THEN parseFailed("signature not found", headEnd)
             ELSE IF file.size < addressSize THEN parseFailed("seek", headEnd)
             ELSE IF footer.err # "" THEN parseFailed("footer", footer.pos)
             ELSE [parsing EXCEPT !.pc = IF DOMAIN footer.params = {} THEN "sort" ELSE "range",
                                  !.footer = footer.params,
                                  !.todo = DOMAIN footer.params,
                                  !.pos = footer.pos]
    /\ UNCHANGED <<env, rleVars, compVars, nbVars, mainVars>>

\* lines 64-68: one iteration of the range over footer, at the key k
ParseRange(k) ==
    /\ parsing.pc = "range"
    /\ k \in parsing.todo
    /\ parsing' = [parsing EXCEPT
                     !.pageAddrs = IF hasPrefixPAGE(k)
                                   THEN Append(@, toInt64(parsing.footer[k]))
                                   ELSE @,
                     !.todo = @ \ {k},
                     !.pc = IF parsing.todo = {k} THEN "sort" ELSE "range"]
    /\ UNCHANGED <<env, rleVars, compVars, nbVars, mainVars>>

\* line 69
ParseSort ==
    /\ parsing.pc = "sort"
    /\ parsing' = [parsing EXCEPT !.pageAddrs = sortAsc(@), !.pc = "pages"]
    /\ UNCHANGED <<env, rleVars, compVars, nbVars, mainVars>>

\* lines 71-77: one iteration of the loop over pageAddrs
ParseReadPage ==
    /\ parsing.pc = "pages"
    /\ Len(parsing.pages) < Len(parsing.pageAddrs)
    /\ LET pm == readMeta(parsing.file, parsing.pos,
                          parsing.pageAddrs[Len(parsing.pages) + 1])
       IN  parsing' = IF pm.err # "" THEN parseFailed(pm.err, pm.pos)
                      ELSE [parsing EXCEPT !.pages = Append(@, pm.params), !.pos = pm.pos]
    /\ UNCHANGED <<env, rleVars, compVars, nbVars, mainVars>>

\* lines 78-89
ParseReturn ==
    /\ parsing.pc = "pages"
    /\ Len(parsing.pages) = Len(parsing.pageAddrs)
    /\ parsing' = [parsing EXCEPT
                     !.pc = "done",
                     !.nb = [W |-> IF env.SUPERNOTE_FORCE_HIRES THEN hiresWidth ELSE pageWidth,
                             H |-> IF env.SUPERNOTE_FORCE_HIRES THEN hiresHeight ELSE pageHeight,
                             Pages |-> parsing.pages, Footer |-> parsing.footer]]
    /\ UNCHANGED <<env, rleVars, compVars, nbVars, mainVars>>

NextParse ==
    \/ ParseOpen
    \/ \E k \in trailerKeys : ParseRange(k)
    \/ ParseSort
    \/ ParseReadPage
    \/ ParseReturn

SpecParse == InitParse /\ [][NextParse]_vars

(***************************************************************************)
(* Claims about Parse and the metadata reader                              *)
(***************************************************************************)
parsed == parsing.pc = "done" /\ parsing.err = ""
ascending(s) == \A i \in 1..(Len(s) - 1) : s[i] <= s[i + 1]
\* the PAGE keys of the trailer of the file being parsed
pageKeys == {k \in DOMAIN parsing.footer : hasPrefixPAGE(k)}

\* C21: whatever order the range over the trailer map took, the offsets
\* are ascending once sorted, page i is the descriptor read at the i-th of
\* them, and the notebook returned is the one Parse returns for the file:
\* the pages, and the outcome, depend on the file alone.
C21_PageOrder ==
    /\ parsing.pc \in {"pages", "done"} => ascending(parsing.pageAddrs)
    /\ parsing.pc = "done" =>
          /\ parsing.err = Parse(parsing.file, 0, env).err
          /\ parsing.nb = Parse(parsing.file, 0, env).nb
    /\ parsed =>
          /\ Len(parsing.nb.Pages) = Len(parsing.pageAddrs)
          /\ \A i \in 1..Len(parsing.pageAddrs) :
                parsing.nb.Pages[i] = readMeta(parsing.file, 0, parsing.pageAddrs[i]).params

\* the trailer names page 2 before page 1, and the two pages come out in
\* the order of their offsets
C21_Witness ==
    /\ parsed
    /\ parsing.file.blocks[footerAt].body = << <<"PAGE1", "300">>, <<"PAGE2", "200">> >>
    /\ parsing.pageAddrs = <<200, 300>>
    /\ parsing.nb.Pages = <<parseParams(descriptorOf(0)), parseParams(descriptorOf(1))>>

strictlyAscending(s) == \A i \in 1..(Len(s) - 1) : s[i] < s[i + 1]

\* C22 as stated: a notebook Parse returns without error has at least one
\* page, and the offsets of its pages are strictly increasing.
C22_AsStated ==
    parsed => (Len(parsing.nb.Pages) > 0 /\ strictlyAscending(parsing.pageAddrs))

\* C22: a notebook Parse returns without error has one page for every
\* trailer key that begins with PAGE, at offsets that never decrease; it
\* has a page exactly when the trailer has such a key, and the offsets are
\* strictly increasing exactly when no two such keys carry the same offset,
\* a value that is no decimal counting as offset 0.
C22_PageOffsets ==
    parsed =>
        /\ Len(parsing.nb.Pages) = Cardinality(pageKeys)
        /\ Len(parsing.pageAddrs) = Cardinality(pageKeys)
        /\ ascending(parsing.pageAddrs)
        /\ {parsing.pageAddrs[i] : i \in DOMAIN parsing.pageAddrs}
              = {toInt64(parsing.footer[k]) : k \in pageKeys}
        /\ Len(parsing.nb.Pages) > 0 <=> pageKeys # {}
        /\ strictlyAscending(parsing.pageAddrs) <=>
              \A j, k \in pageKeys :
                  toInt64(parsing.footer[j]) = toInt64(parsing.footer[k]) => j = k

\* two page keys naming the same offset: the notebook has the page twice
C22_Witness ==
    /\ parsed
    /\ parsing.footer = ("PAGE1" :> "300") @@ ("PAGE2" :> "300")
    /\ parsing.pageAddrs = <<300, 300>>
    /\ Len(parsing.nb.Pages) = 2 /\ parsing.nb.Pages[1] = parsing.nb.Pages[2]

\* the value of the trailer key k is a decimal offset
decimal(k) == parseInt(parsing.footer[k]).ok
\* the descriptor block the trailer key k names cannot be read
unreadable(k) ==
    decimal(k) /\ readMeta(parsing.file, 0, toInt64(parsing.footer[k])).err # ""

\* C23 as stated: Parse fails when a trailer key that begins with PAGE
\* carries a value that is no decimal offset, and when a page descriptor
\* block cannot be read.
C23_UnparseableFails ==
    parsing.pc = "done" =>
        ((\E k \in pageKeys : ~decimal(k) \/ unreadable(k)) => parsing.err # "")

\* the body of the trailer of the file being parsed
trailerBody == parsing.file.blocks[footerAt].body
\* the first occurrence of the key k in the body b
firstOf(b, k) == CHOOSE i \in DOMAIN b : b[i][1] = k /\ \A j \in 1..(i - 1) : b[j][1] # k
\* every key of the body, bound to the value of its first occurrence
firstBound(b) == [k \in {b[i][1] : i \in DOMAIN b} |-> b[firstOf(b, k)][2]]
\* the next descriptor is read at offset 0
zeroRead ==
    /\ parsing.pc = "pages"
    /\ Len(parsing.pages) < Len(parsing.pageAddrs)
    /\ parsing.pageAddrs[Len(parsing.pages) + 1] = 0

\* C24: the map read from the trailer binds every key of the body to the
\* value of its first occurrence, and a read at offset 0 gives the empty
\* map without an error and leaves the cursor where it was.
C24_MetadataReader ==
    [][/\ parsing'.pc \in {"range", "sort", "pages"} =>
              parsing'.footer = firstBound(trailerBody)
       /\ zeroRead =>
              /\ parsing'.pos = parsing.pos
              /\ parsing'.err = ""
              /\ parsing'.pages = Append(parsing.pages, <<>>)]_vars

\* PAGE1 is bound twice; the first value, no decimal, stands, and the page
\* read at offset 0 is empty, the cursor still behind the trailer
C24_Witness ==
    /\ parsed
    /\ trailerBody = << <<"PAGE1", "x">>, <<"PAGE1", "200">> >>
    /\ parsing.footer = ("PAGE1" :> "x")
    /\ parsing.nb.Pages = << <<>> >>
    /\ parsing.pos = footerAt + addressSize + 60

(***************************************************************************)
(* SpecExtend: decodeRattaRLERef on a payload followed by further bytes.   *)
(* call.data is the whole byte string and call.base the length of the      *)
(* payload it starts with; the buffer is 5 columns by 4 rows.              *)
(***************************************************************************)
MaxExtra == 2

\* length bytes: runs of 4, 10 and 20 pixels, the holders 0x80 and 0x84,
\* which tail adjustment resolves to a power of two and to 5, 10 or 20
\* pixels, and the 0xFF mark
extendLengths == {3, 9, 19, 128, 132, lenMark}
extendPairs == {<<c, n>> : c \in pairColours, n \in extendLengths}
RECURSIVE flatten(_)
\* the bytes of a sequence of pairs
flatten(q) == IF q = <<>> THEN <<>> ELSE Head(q) \o flatten(Tail(q))

\* at most MaxPairs pairs, and a lone byte after them or not
extendBases ==
    LET whole == {flatten(q) : q \in seqsUpTo(extendPairs, MaxPairs)}
    IN  whole \cup {p \o <<colBlack>> : p \in whole}

\* the bytes appended: colour codes, a short length, a holder, the mark
extraBytes == {colBlack, colBG, 3, 128, lenMark}
extras == {x \in seqsUpTo(extraBytes, MaxExtra) : x # <<>>}

InitExtend ==
    /\ \E fix \in BOOLEAN : env = [envNone EXCEPT !.RLE_FIX_BG = fix]
    /\ \E p \in extendBases, x \in extras, allBlank \in BOOLEAN :
          /\ call = [data |-> p \o x, w |-> 5, h |-> 4,
                     allBlank |-> allBlank, horiz |-> FALSE, base |-> Len(p)]
          /\ loc = refEnter(5, 4, FALSE)
    /\ pc = "loop"
    /\ ret = noReturn
    /\ compIdle
    /\ nbIdle
    /\ sideIdle

SpecExtend == InitExtend /\ [][NextRLE]_vars

\* what decodeRattaRLERef returns for the payload without the appended bytes
ofBase ==
    decodeRattaRLERef(SubSeq(call.data, 1, call.base), call.w, call.h,
                      call.allBlank, call.horiz, env.RLE_FIX_BG)

\* the locals at the return of that call
baseRun ==
    refRun(SubSeq(call.data, 1, call.base), call.w, call.h,
           call.allBlank, call.horiz, env.RLE_FIX_BG)

\* C29: when a payload decodes without error, the payload followed by any
\* further bytes decodes without error too, to the same pixels and the same
\* width and height.
C29_ExtensionStable ==
    (pc = "done" /\ ofBase.err = "") => ret = ofBase

\* 4 background pixels and a holder that tail adjustment resolves to the 16
\* pixels left; with a black pair appended the holder is flushed alone, cut
\* to the same 16 pixels, and the black pair writes nothing
C29_Witness ==
    /\ pc = "done"
    /\ call.data = <<colBG, 3, colBG, 128, colBlack, 3>> /\ call.base = 4
    /\ ofBase.err = ""
    /\ baseRun.log[2] = [code |-> colBG, length |-> 16, at |-> 4]
    /\ loc.log[2] = [code |-> colBG, length |-> 16, at |-> 4]
    /\ Len(loc.log) = 3 /\ loc.log[3].length = 0
    /\ ret.err = "" /\ ret.pix = filled(255, 20)

(***************************************************************************)
(* SpecPool: main's worker pool.  noteFiles are numbered 1..N; jobs and    *)
(* results are buffered channels, held as the sequences of what they       *)
(* buffer; a worker is at its range over jobs, inside processNoteFile, at  *)
(* its send on results, or has left its loop.                              *)
(***************************************************************************)
MaxWorkers == 2
MaxFiles == 3

\* line 88: make(chan string, *numWorkers)
jobsCap(w) == w
\* mutant: results is made without a buffer
resultsCapNone(n) == 0
\* line 89: make(chan error, len(noteFiles))
resultsCap(n) == n

atRange == [pc |-> "range", file |-> 0]

InitPool ==
    /\ env = envNone
    /\ \E w \in 1..MaxWorkers, n \in 1..MaxFiles :
          pool = [mainPc |-> "send", W |-> w, N |-> n,
                  jobs |-> <<>>, closed |-> FALSE, results |-> <<>>,
                  sent |-> 0, got |-> <<>>,
                  wk |-> [i \in 1..w |-> atRange],
                  by |-> [f \in 1..n |-> 0],
                  takes |-> [f \in 1..n |-> 0]]
    /\ search = noSearch /\ conv = noConv
    /\ parsing = noParsing
    /\ rleIdle
    /\ compIdle
    /\ nbIdle

poolRest == <<env, rleVars, compVars, nbVars, parsing, search, conv>>

\* lines 109-111: jobs <- noteFile
MainSend ==
    /\ pool.mainPc = "send"
    /\ pool.sent < pool.N
    /\ Len(pool.jobs) < jobsCap(pool.W)
    /\ pool' = [pool EXCEPT !.jobs = Append(@, pool.sent + 1), !.sent = @ + 1]
    /\ UNCHANGED poolRest

\* line 112: close(jobs)
MainClose ==
    /\ pool.mainPc = "send"
    /\ pool.sent = pool.N
    /\ pool' = [pool EXCEPT !.closed = TRUE, !.mainPc = "wait"]
    /\ UNCHANGED poolRest

\* lines 115-117: <-results
MainRecv ==
    /\ pool.mainPc = "wait"
    /\ Len(pool.got) < pool.N
    /\ pool.results # <<>>
    /\ pool' = [pool EXCEPT !.got = Append(@, Head(pool.results)), !.results = Tail(@)]
    /\ UNCHANGED poolRest

\* line 118: main returns, and the process with it
MainReturn ==
    /\ pool.mainPc = "wait"
    /\ Len(pool.got) = pool.N
    /\ pool' = [pool EXCEPT !.mainPc = "done"]
    /\ UNCHANGED poolRest

working(w) == pool.mainPc \in {"send", "wait"} /\ w \in DOMAIN pool.wk

\* line 93: the range over jobs receives a file
WorkerTake(w) ==
    /\ working(w)
    /\ pool.wk[w].pc = "range"
    /\ pool.jobs # <<>>
    /\ pool' = [pool EXCEPT !.jobs = Tail(@),
                            !.wk[w] = [pc |-> "process", file |-> Head(pool.jobs)],
                            !.by[Head(pool.jobs)] = w,
                            !.takes[Head(pool.jobs)] = @ + 1]
    /\ UNCHANGED poolRest

\* line 95: processNoteFile returns; its error is not looked at by anything
\* that follows but the log
WorkerProcess(w) ==
    /\ working(w)
    /\ pool.wk[w].pc = "process"
    /\ pool' = [pool EXCEPT !.wk[w] = [pc |-> "send", file |-> pool.wk[w].file]]
    /\ UNCHANGED poolRest

\* line 99: results <- err
WorkerSend(w) ==
    /\ working(w)
    /\ pool.wk[w].pc = "send"
    /\ Len(pool.results) < resultsCap(pool.N)
    /\ pool' = [pool EXCEPT !.results = Append(@, [file |-> pool.wk[w].file]),
                            !.wk[w] = atRange]
    /\ UNCHANGED poolRest

\* line 93: jobs is closed and empty, the range ends
WorkerExit(w) ==
    /\ working(w)
    /\ pool.wk[w].pc = "range"
    /\ pool.jobs = <<>> /\ pool.closed
    /\ pool' = [pool EXCEPT !.wk[w] = [pc |-> "exit", file |-> 0]]
    /\ UNCHANGED poolRest

NextPool ==
    \/ MainSend
    \/ MainClose
    \/ MainRecv
    \/ MainReturn
    \/ \E w \in 1..MaxWorkers : WorkerTake(w)
    \/ \E w \in 1..MaxWorkers : WorkerProcess(w)
    \/ \E w \in 1..MaxWorkers : WorkerSend(w)
    \/ \E w \in 1..MaxWorkers : WorkerExit(w)

\* every goroutine that can take a step is scheduled in the end, and every
\* processNoteFile call returns
FairPool ==
    /\ WF_vars(MainSend) /\ WF_vars(MainClose) /\ WF_vars(MainRecv) /\ WF_vars(MainReturn)
    /\ \A w \in 1..MaxWorkers :
          WF_vars(WorkerTake(w)) /\ WF_vars(WorkerProcess(w)) /\ WF_vars(WorkerSend(w))

SpecPool == InitPool /\ [][NextPool]_vars /\ FairPool

\* the files whose results were sent so far, in the order of sending
delivered == [i \in 1..(Len(pool.got) + Len(pool.results)) |->
                 (pool.got \o pool.results)[i].file]

poolSafe ==
    /\ \A f \in 1..pool.N : pool.takes[f] <= 1
    /\ \A f \in 1..pool.N : pool.takes[f] = 1 <=> pool.by[f] \in 1..pool.W
    /\ Len(delivered) <= pool.N
    /\ \A i, j \in DOMAIN delivered : delivered[i] = delivered[j] => i = j
    /\ \A w \in DOMAIN pool.wk :
          pool.wk[w].pc = "send" => Len(pool.results) < resultsCap(pool.N)
    /\ pool.mainPc = "done" =>
          /\ \A f \in 1..pool.N : pool.takes[f] = 1
          /\ Len(pool.got) = pool.N
          /\ {pool.got[i].file : i \in DOMAIN pool.got} = 1..pool.N

\* C25: for every number of workers from 1 on and every number of files
\* from 1 on, a file is taken from jobs at most once and by one worker, at
\* most N results are sent and no two for one file, a worker at its send on
\* results always finds room, and main returns in the end, every file then
\* taken exactly once and N results received.
C25_WorkerPool ==
    [](pool.mainPc # "idle" => poolSafe) /\ <>(pool.mainPc = "done")

\* three files and two workers: main has returned, and the first worker
\* took two of the files
C25_Witness ==
    /\ pool.mainPc = "done"
    /\ pool.W = 2 /\ pool.N = 3
    /\ pool.by = <<1, 2, 1>>
    /\ Len(pool.got) = 3

(***************************************************************************)
(* SpecOutput: the recursive search and the directories and files that     *)
(* processNoteFile creates.  An entry of the input tree is its directory   *)
(* below the input directory, its name as a stem and an extension, and     *)
(* whether it is a directory; the files found are processed concurrently   *)
(* by the workers, a step of any of them at a time.                        *)
(***************************************************************************)
MaxEntries == 3

entry(dir, stem, ext, isDir) == [dir |-> dir, stem |-> stem, ext |-> ext, isDir |-> isDir]

\* the entries a tree may hold, in the lexical order in which WalkDir
\* reaches them
walkOrder ==
    << entry("a", "x", ".NOTE", FALSE),
       entry("a", "x", ".note", FALSE),
       entry("a", "x", ".txt", FALSE),
       entry("a", "y", ".note", FALSE),
       entry("a", "z", ".note", TRUE),
       entry("b", "x", ".note", FALSE),
       entry("", "x", ".note", FALSE) >>

trees == {t \in SUBSET {walkOrder[i] : i \in DOMAIN walkOrder} : Cardinality(t) <= MaxEntries}

\* strings.ToLower on an extension
toLower(ext) == IF ext = ".NOTE" THEN ".note" ELSE ext

\* line 28: strings.HasSuffix(strings.ToLower(path), ".note")
hasNoteSuffix(e) == toLower(e.ext) = ".note"

\* line 134: strings.TrimSuffix(filepath.Base(inputPath), ".note"); the
\* comparison is of the name as it is spelled
baseName(e) == IF e.ext = ".note" THEN [stem |-> e.stem, ext |-> ""]
                                  ELSE [stem |-> e.stem, ext |-> e.ext]

\* lines 135-138: filepath.Join(outDir, baseName), for the one outDir of a run
noteDir(e) == baseName(e)

\* the number of pages of the notebook in a file
pagesOf(e) == IF e.stem = "x" THEN 2 ELSE 1

InitOutput ==
    /\ env = envNone
    /\ \E t \in trees :
          search = [pc |-> "walk", tree |-> t, at |-> 1, noteFiles |-> <<>>,
                    job |-> <<>>, dirs |-> {}, files |-> {}]
    /\ pool = noPool /\ conv = noConv
    /\ parsing = noParsing
    /\ rleIdle
    /\ compIdle
    /\ nbIdle

outputRest == <<env, rleVars, compVars, nbVars, parsing, pool, conv>>

\* lines 24-32: the callback of filepath.WalkDir on the next entry
WalkDirVisit ==
    /\ search.pc = "walk"
    /\ search.at <= Len(walkOrder)
    /\ LET e == walkOrder[search.at] IN
          search' = [search EXCEPT
                       !.at = @ + 1,
                       !.noteFiles = IF e \in search.tree /\ ~e.isDir /\ hasNoteSuffix(e)
                                        THEN Append(@, e) ELSE @]
    /\ UNCHANGED outputRest

\* lines 33, 79-86: the walk is over; main stops when nothing was found
WalkDirReturn ==
    /\ search.pc = "walk"
    /\ search.at > Len(walkOrder)
    /\ search' = [search EXCEPT
                    !.pc = IF search.noteFiles = <<>> THEN "fatal" ELSE "run",
                    !.job = [i \in DOMAIN search.noteFiles |-> [pc |-> "mkdir", page |-> 0]]]
    /\ UNCHANGED outputRest

running(i) == search.pc = "run" /\ i \in DOMAIN search.job

\* line 140: os.MkdirAll(noteDir, 0755), which succeeds on a directory that
\* is there already
MkdirAll(i) ==
    /\ running(i)
    /\ search.job[i].pc = "mkdir"
    /\ search' = [search EXCEPT
                    !.job[i].pc = "page",
                    !.dirs = @ \cup {[dir |-> noteDir(search.noteFiles[i]), by |-> i]}]
    /\ UNCHANGED outputRest

\* lines 145-157: one pass of the page loop, saveImage creating the file
SavePage(i) ==
    /\ running(i)
    /\ search.job[i].pc = "page"
    /\ search.job[i].page < pagesOf(search.noteFiles[i])
    /\ search' = [search EXCEPT
                    !.job[i].page = @ + 1,
                    !.files = @ \cup {[dir |-> noteDir(search.noteFiles[i]),
                                       page |-> search.job[i].page, by |-> i]}]
    /\ UNCHANGED outputRest

\* line 159: the page loop is over
ProcessReturn(i) ==
    /\ running(i)
    /\ search.job[i].pc = "page"
    /\ search.job[i].page = pagesOf(search.noteFiles[i])
    /\ search' = [search EXCEPT !.job[i].pc = "done"]
    /\ UNCHANGED outputRest

\* lines 115-118: every result is in, main returns
OutputReturn ==
    /\ search.pc = "run"
    /\ \A i \in DOMAIN search.job : search.job[i].pc = "done"
    /\ search' = [search EXCEPT !.pc = "done"]
    /\ UNCHANGED outputRest

NextOutput ==
    \/ WalkDirVisit
    \/ WalkDirReturn
    \/ \E i \in 1..Len(walkOrder) : MkdirAll(i)
    \/ \E i \in 1..Len(walkOrder) : SavePage(i)
    \/ \E i \in 1..Len(walkOrder) : ProcessReturn(i)
    \/ OutputReturn

SpecOutput == InitOutput /\ [][NextOutput]_vars

\* C26: no two of the files found by the search are given the same output
\* directory, and no page file is created by two of them.
C26_OwnDirectory ==
    /\ \A d1, d2 \in search.dirs : d1.dir = d2.dir => d1.by = d2.by
    /\ \A f1, f2 \in search.files :
          f1.dir = f2.dir /\ f1.page = f2.page => f1.by = f2.by

(***************************************************************************)
(* SpecConvert: one processNoteFile call, stepped.  The notebook in the    *)
(* file is given by whether it parses, its number of pages and which of    *)
(* them decode; creating the directory and saving a page may fail.         *)
(***************************************************************************)
MaxNotePages == 3

RECURSIVE digitsOf(_)
\* the decimal digits of k >= 0
digitsOf(k) == IF k < 10 THEN <<k>> ELSE Append(digitsOf(k \div 10), k % 10)

RECURSIVE zeroPad(_, _)
\* digits d padded with zeros on the left to at least width
zeroPad(d, width) == IF Len(d) >= width THEN d ELSE zeroPad(<<0>> \o d, width)

\* line 146: fmt.Sprintf("page_%03d.png", pageNum)
pageFileName(pageNum) ==
    [prefix |-> "page_", digits |-> zeroPad(digitsOf(pageNum), 3), suffix |-> ".png"]

\* mutant: the page loop is left at the first failure
afterFailureBreak(pageNum, n) == n
\* lines 150, 154: continue, the range goes on with the next index
afterFailure(pageNum, n) == pageNum + 1

InitConvert ==
    /\ env = envNone
    /\ \E parses \in BOOLEAN, n \in 0..MaxNotePages :
          \E decodes \in [0..(n - 1) -> BOOLEAN] :
             conv = [pc |-> "parse", parses |-> parses, N |-> n, decodes |-> decodes,
                     pageNum |-> 0, attempted |-> <<>>, saves |-> <<>>,
                     dir |-> FALSE, files |-> <<>>, errors |-> 0, ret |-> ""]
    /\ pool = noPool /\ search = noSearch
    /\ parsing = noParsing
    /\ rleIdle
    /\ compIdle
    /\ nbIdle

convertRest == <<env, rleVars, compVars, nbVars, parsing, pool, search>>

\* lines 122-131: os.Open and note.Parse
ConvertParse ==
    /\ conv.pc = "parse"
    /\ conv' = IF conv.parses THEN [conv EXCEPT !.pc = "mkdir"]
               ELSE [conv EXCEPT !.pc = "done", !.ret = "failed to parse"]
    /\ UNCHANGED convertRest

\* lines 140-142: os.MkdirAll(noteDir, 0755)
ConvertMkdir ==
    /\ conv.pc = "mkdir"
    /\ \E ok \in BOOLEAN :
          conv' = IF ok THEN [conv EXCEPT !.pc = "page", !.dir = TRUE]
                  ELSE [conv EXCEPT !.pc = "done", !.ret = "failed to create directory"]
    /\ UNCHANGED convertRest

\* lines 145-151: the next index of the range, and convertPageToImage on it
ConvertPage ==
    /\ conv.pc = "page"
    /\ conv.pageNum < conv.N
    /\ conv' = IF conv.decodes[conv.pageNum]
               THEN [conv EXCEPT !.pc = "save", !.attempted = Append(@, conv.pageNum)]
               ELSE [conv EXCEPT !.attempted = Append(@, conv.pageNum),
                                 !.errors = @ + 1,
                                 !.pageNum = afterFailure(conv.pageNum, conv.N)]
    /\ UNCHANGED convertRest

\* lines 152-156, 247-255: saveImage; os.Create may fail, and png.Encode may
\* fail on the file os.Create made
ConvertSave ==
    /\ conv.pc = "save"
    /\ \E how \in {"ok", "create", "encode"} :
          LET name == pageFileName(conv.pageNum)
              made == [name |-> name, page |-> conv.pageNum, png |-> how = "ok"]
          IN  conv' = [conv EXCEPT
                         !.pc = "page",
                         !.saves = Append(@, [page |-> conv.pageNum, how |-> how]),
                         !.files = IF how = "create" THEN @ ELSE Append(@, made),
                         !.errors = IF how = "ok" THEN @ ELSE @ + 1,
                         !.pageNum = IF how = "ok" THEN @ + 1
                                     ELSE afterFailure(conv.pageNum, conv.N)]
    /\ UNCHANGED convertRest

\* line 159: the range is over, processNoteFile returns nil
ConvertReturn ==
    /\ conv.pc = "page"
    /\ conv.pageNum >= conv.N
    /\ conv' = [conv EXCEPT !.pc = "done"]
    /\ UNCHANGED convertRest

NextConvert ==
    \/ ConvertParse
    \/ ConvertMkdir
    \/ ConvertPage
    \/ ConvertSave
    \/ ConvertReturn

SpecConvert == InitConvert /\ [][NextConvert]_vars

\* the pages whose PNG is in the directory under the name of their index
hasPng(k) ==
    \E i \in DOMAIN conv.files :
        /\ conv.files[i].page = k /\ conv.files[i].png
        /\ conv.files[i].name = pageFileName(k)

\* the pages whose save went through
savedOk(k) == \E i \in DOMAIN conv.saves : conv.saves[i] = [page |-> k, how |-> "ok"]

\* conversion of every index 0..N-1 was attempted, in ascending order
allAttempted == conv.attempted = [i \in 1..conv.N |-> i - 1]

\* the value of a sequence of decimal digits
RECURSIVE valueOf(_)
valueOf(d) == IF d = <<>> THEN 0 ELSE valueOf(SubSeq(d, 1, Len(d) - 1)) * 10 + d[Len(d)]

\* every file made carries the name of its page: page_, at least three
\* digits that read as the index, .png
namedByIndex ==
    \A i \in DOMAIN conv.files :
        /\ conv.files[i].name.prefix = "page_" /\ conv.files[i].name.suffix = ".png"
        /\ Len(conv.files[i].name.digits) >= 3
        /\ valueOf(conv.files[i].name.digits) = conv.files[i].page
        /\ conv.decodes[conv.files[i].page]

\* C27 as stated: when the file parses, conversion of every index 0..N-1 is
\* attempted in ascending order, page k goes to page_%03d(k).png, and every
\* page that decodes has its PNG when processNoteFile returns.
C27_AsStated ==
    (conv.pc = "done" /\ conv.parses) =>
        /\ allAttempted
        /\ namedByIndex
        /\ \A k \in 0..(conv.N - 1) : conv.decodes[k] => hasPng(k)

\* C27: when the file parses and its output directory can be created,
\* conversion of every index 0..N-1 is attempted in ascending order whatever
\* failed before, page k goes to page_%03d(k).png, and when processNoteFile
\* returns a page has its PNG exactly when it decoded and its save went
\* through; processNoteFile then returns no error.
C27_AllPages ==
    /\ namedByIndex
    /\ (conv.pc = "done" /\ conv.parses /\ conv.dir) =>
          /\ allAttempted
          /\ conv.ret = ""
          /\ \A k \in 0..(conv.N - 1) : hasPng(k) <=> (conv.decodes[k] /\ savedOk(k))
          /\ \A k \in 0..(conv.N - 1) : conv.decodes[k] <=> \E i \in DOMAIN conv.saves : conv.saves[i].page = k
    /\ (conv.pc = "done" /\ ~conv.dir) => conv.files = <<>> /\ conv.attempted = <<>>

\* three pages: the first does not decode, the second decodes and fails to
\* save, the third decodes and is written as page_002.png
C27_Witness ==
    /\ conv.pc = "done" /\ conv.N = 3
    /\ conv.decodes = [k \in 0..2 |-> k # 0]
    /\ conv.saves = <<[page |-> 1, how |-> "encode"], [page |-> 2, how |-> "ok"]>>
    /\ conv.attempted = <<0, 1, 2>>
    /\ hasPng(2) /\ ~hasPng(1) /\ ~hasPng(0)
    /\ conv.files[2].name.digits = <<0, 0, 2>>
    /\ conv.errors = 2

====
